---- MODULE Spec2Model ----
(***************************************************************************)
(* Model of the JIT's SSA rename state (src/jit/ssarenamestate.{h,cpp})    *)
(* and of the early value propagation phase (src/jit/earlyprop.cpp).       *)
(*                                                                         *)
(* The specifications that share the module:                                  *)
(*   Spec      the rename state for locals driven by a dominator walk      *)
(*   SpecMem   the rename state for the memory kinds                       *)
(*   SpecProp  early propagation of array lengths over SSA definitions     *)
(*   SpecRec   the backward walk over SSA definitions, one call at a time  *)
(*   SpecFold  the folding of a null check into a later indirection        *)
(*   SpecJTrue the hoisting of a definition into a conditional branch      *)
(*   SpecPass  the loops of optEarlyProp over the blocks of a method       *)
(***************************************************************************)
EXTENDS Integers, Sequences, FiniteSets, TLC

VARIABLES
    \* SsaRenameState, locals
    counts,          \* Counts counts: NullArray or [lclNum -> next SSA number]
    m_lclStacks,     \* Stack** m_lclStacks: NullArray or [lclNum -> Stack*]
    m_blockStack,    \* Stack* m_blockStack: head of the list of block-owned frames
    m_freeStack,     \* Stack* m_freeStack: head of the free list
    heap,            \* the Stack objects allocated so far, by address 1..Len(heap)
    \* the dominator walk that drives the rename state
    walkPath,        \* bbNums of the open blocks, root first
    walkVisited,     \* bbNums of the blocks entered so far
    walkCanPush,     \* TRUE while the innermost open block has visited no child
    walkDefs,        \* [lclNum -> [bbNum -> <<>> or <<last ssaNum pushed by open block bbNum>>]]
    walkPending,     \* <<>> or <<lclNum, ssaNum>>: a number from CountForDef not yet pushed
    walkDefCalls,    \* [lclNum -> number of CountForDef calls made for it]
    lastOp,          \* the operation that produced this state, with its result
    \* SsaRenameState, memory kinds
    memoryStack,     \* [MemoryKind -> Seq(BlockState)], back() is the last element
    memoryCount,     \* unsigned memoryCount
    byrefStatesMatchGcHeapStates,
    memPopped,       \* memory kinds whose stack the exiting block has popped
    \* early propagation
    lvaInSsa,        \* lclNums of the locals that are in SSA (LclVarDsc::lvInSsa)
    ssaDefs,         \* [<<lclNum, ssaNum>> -> definition]  (LclSsaVarDsc::m_defLoc)
    site,            \* the node handed to optEarlyPropRewriteTree, its gtNext, the result
    propPc,          \* "idle" | "start" | "done"
    propShape,       \* how the method was built: copies on the chain, its last definition
    rec,             \* the running call of optPropGetValueRec: its arguments, its result
    fold,            \* the block optFoldNullCheck looks at: the indirection, the definition
                     \* of its address, the nodes between them, their flags
    jtrue,           \* the block optDoEarlyPropForJTrue looks at: the branch, the
                     \* definition of its first operand, the locals
    pass             \* optEarlyProp at work on a method: its flags and blocks, the
                     \* position of the loops, the calls made so far

renameVars == <<counts, m_lclStacks, m_blockStack, m_freeStack, heap>>
walkVars   == <<walkPath, walkVisited, walkCanPush, walkDefs, walkPending, walkDefCalls>>
memVars    == <<memoryStack, memoryCount, byrefStatesMatchGcHeapStates, memPopped>>
earlyVars  == <<rec, fold, jtrue, pass>>
propVars   == <<lvaInSsa, ssaDefs, site, propPc, propShape, earlyVars>>
vars       == <<renameVars, walkVars, lastOp, memVars, propVars>>

(***************************************************************************)
(* Bounds of the model.                                                    *)
(***************************************************************************)
lvaCount  == 2      \* number of locals handed to the constructor
MaxBlocks == 3      \* basic blocks of the method, bbNum 1..MaxBlocks
MaxDefs   == 3      \* CountForDef calls made during the walk
MaxMemDefs == 3     \* CountForMemoryDef calls made during the walk
MaxChain  == 6      \* copies on the definition chain of the site's local
MaxPrevNodes == 2   \* nodes before the address local in the indirection's statement
MaxStmtRoots == 27  \* statements between the definition and the indirection
MaxExprNodes == 3   \* nodes on the first-operand spine of a defining expression
MaxPassBlocks == 2  \* basic blocks of the method optEarlyProp runs on

(***************************************************************************)
(* Program constants.                                                      *)
(***************************************************************************)
RESERVED_SSA_NUM == 0
UNINIT_SSA_NUM   == 1
FIRST_SSA_NUM    == 2

NullPtr == 0

\* An array pointer that is still nullptr (counts, m_lclStacks).
NullArray == <<>>

Lcls     == 0 .. (lvaCount - 1)
BbNums   == 1 .. MaxBlocks
SsaNums  == FIRST_SSA_NUM .. (FIRST_SSA_NUM + MaxDefs - 1)

\* lastOp: the operation, its arguments and the value it returned.
Op(name, b, l, s, r, a) ==
    [op |-> name, bb |-> b, lcl |-> l, ssa |-> s, result |-> r, again |-> a, kind |-> ""]

NoOp == Op("none", 0, 0, 0, 0, FALSE)

\* lastOp of an operation on a memory kind.
MemOp(name, k, b, s, r) ==
    [op |-> name, bb |-> b, lcl |-> 0, ssa |-> s, result |-> r, again |-> FALSE, kind |-> k]

(***************************************************************************)
(* SsaRenameState: construction.                                           *)
(***************************************************************************)
RenameInit ==
    /\ counts = NullArray
    /\ m_lclStacks = NullArray
    /\ m_blockStack = NullPtr
    /\ m_freeStack = NullPtr
    /\ heap = <<>>

WalkInit ==
    /\ walkPath = <<>>
    /\ walkVisited = {}
    /\ walkCanPush = FALSE
    /\ walkDefs = [l \in Lcls |-> [b \in 0 .. MaxBlocks |-> <<>>]]
    /\ walkPending = <<>>
    /\ walkDefCalls = [l \in Lcls |-> 0]

\* EnsureCounts: the counts array after the call.
EnsureCounts ==
    IF counts = NullArray THEN [i \in Lcls |-> FIRST_SSA_NUM] ELSE counts

\* EnsureStacks: the m_lclStacks array after the call.
EnsureStacks ==
    IF m_lclStacks = NullArray THEN [i \in Lcls |-> NullPtr] ELSE m_lclStacks

\* The Stack constructor: Stack(list, stack, bbNum, lclNum, ssaNum).
NewStack(list, stack, bbNum, lclNum, ssaNum) ==
    [m_list |-> list, m_stack |-> stack, m_bbNum |-> bbNum,
     m_lclNum |-> lclNum, m_ssaNum |-> ssaNum]

\* new (m_alloc) Stack(...): the address of the object it creates.
AllocAddr == Len(heap) + 1

(***************************************************************************)
(* Views of the linked frames.                                             *)
(***************************************************************************)
RECURSIVE StackChain(_, _)
\* The frames reached from p through m_stack, top first.
StackChain(hp, p) ==
    IF p = NullPtr THEN <<>> ELSE <<p>> \o StackChain(hp, hp[p].m_stack)

RECURSIVE ListChain(_, _)
\* The frames reached from p through m_list, head first.
ListChain(hp, p) ==
    IF p = NullPtr THEN <<>> ELSE <<p>> \o ListChain(hp, hp[p].m_list)

\* The frames on the stack of local l, top first.
LclStack(l) == StackChain(heap, EnsureStacks[l])

\* The frames on the block list, innermost first.
BlockList == ListChain(heap, m_blockStack)

\* The frames in the free pool.
FreeList == ListChain(heap, m_freeStack)

Range(seq) == {seq[i] : i \in 1 .. Len(seq)}

(***************************************************************************)
(* SsaRenameState: operations on locals.                                   *)
(***************************************************************************)
\* CountForDef: the value returned (the counter before the post increment).
CountForDefResult(lclNum) == EnsureCounts[lclNum]

\* A CountForDef that advances the counter of every local.
CountForDefCountsShared(lclNum) ==
    [i \in Lcls |-> EnsureCounts[i] + 1]

\* CountForDef: the counts array after the call.
CountForDefCounts(lclNum) ==
    [EnsureCounts EXCEPT ![lclNum] = EnsureCounts[lclNum] + 1]

CountForDef(lclNum) ==
    /\ counts' = CountForDefCounts(lclNum)
    /\ lastOp' = Op("CountForDef", 0, lclNum, 0, CountForDefResult(lclNum), FALSE)
    /\ UNCHANGED <<m_lclStacks, m_blockStack, m_freeStack, heap>>

\* A CountForUse that answers FIRST_SSA_NUM for an empty stack.
CountForUseResultFirst(lclNum) ==
    LET stack == EnsureStacks[lclNum]
    IN  IF stack = NullPtr THEN FIRST_SSA_NUM ELSE heap[stack].m_ssaNum

\* CountForUse: the value returned.
CountForUseResult(lclNum) ==
    LET stack == EnsureStacks[lclNum]
    IN  IF stack = NullPtr THEN UNINIT_SSA_NUM ELSE heap[stack].m_ssaNum

CountForUse(lclNum) ==
    /\ m_lclStacks' = EnsureStacks
    /\ lastOp' = Op("CountForUse", 0, lclNum, 0, CountForUseResult(lclNum), FALSE)
    /\ UNCHANGED <<counts, m_blockStack, m_freeStack, heap>>

\* A PushLclInit that links its frame on the block list.
PushLclInitListed(lclNum, ssaNum) ==
    LET stack == EnsureStacks[lclNum]
    IN  /\ stack = NullPtr
        /\ heap' = Append(heap, NewStack(m_blockStack, stack, 0, lclNum, ssaNum))
        /\ m_lclStacks' = [EnsureStacks EXCEPT ![lclNum] = AllocAddr]
        /\ m_blockStack' = AllocAddr
        /\ UNCHANGED <<counts, m_freeStack>>

PushLclInit(lclNum, ssaNum) ==
    LET stack == EnsureStacks[lclNum]
    IN  /\ stack = NullPtr      \* assert(stack == nullptr)
        /\ heap' = Append(heap, NewStack(NullPtr, stack, 0, lclNum, ssaNum))
        /\ m_lclStacks' = [EnsureStacks EXCEPT ![lclNum] = AllocAddr]
        /\ UNCHANGED <<counts, m_blockStack, m_freeStack>>

\* A Push that takes a new frame for every definition.
PushNeedsFrameAlways(stack, bbNum) == TRUE

\* Push: the test that selects a new frame over an overwrite of the top frame.
PushNeedsFrame(stack, bbNum) ==
    (stack = NullPtr) \/ (heap[stack].m_bbNum # bbNum)

Push(bbNum, lclNum, ssaNum) ==
    LET stack == EnsureStacks[lclNum]
    IN  /\ IF PushNeedsFrame(stack, bbNum)
           THEN /\ heap' = Append(heap, NewStack(m_blockStack, stack, bbNum, lclNum, ssaNum))
                /\ m_lclStacks' = [EnsureStacks EXCEPT ![lclNum] = AllocAddr]
                /\ m_blockStack' = AllocAddr
           ELSE /\ heap' = [heap EXCEPT ![stack].m_ssaNum = ssaNum]
                /\ m_lclStacks' = EnsureStacks
                /\ UNCHANGED m_blockStack
        /\ UNCHANGED <<counts, m_freeStack>>

\* A loop that stops after the first frame of the block.
PopLoopOnce(bbNum, stack, lclStacks, lastFree) ==
    IF (stack # NullPtr) /\ (heap[stack].m_bbNum = bbNum)
    THEN [lclStacks |-> [lclStacks EXCEPT ![heap[stack].m_lclNum] = heap[stack].m_stack],
          lastFree  |-> stack]
    ELSE [lclStacks |-> lclStacks, lastFree |-> lastFree]

RECURSIVE PopLoopAll(_, _, _, _)
\* A loop that does not compare the owning block.
PopLoopAll(bbNum, stack, lclStacks, lastFree) ==
    IF stack # NullPtr
    THEN PopLoopAll(bbNum, heap[stack].m_list,
                    [lclStacks EXCEPT ![heap[stack].m_lclNum] = heap[stack].m_stack],
                    stack)
    ELSE [lclStacks |-> lclStacks, lastFree |-> lastFree]

RECURSIVE PopLoop(_, _, _, _)
\* PopBlockStacks: the for loop over the block list. Yields the local stacks
\* and lastFree when the loop ends.
PopLoop(bbNum, stack, lclStacks, lastFree) ==
    IF (stack # NullPtr) /\ (heap[stack].m_bbNum = bbNum)
    THEN PopLoop(bbNum, heap[stack].m_list,
                 [lclStacks EXCEPT ![heap[stack].m_lclNum] = heap[stack].m_stack],
                 stack)
    ELSE [lclStacks |-> lclStacks, lastFree |-> lastFree]

\* A PopBlockStacks that pops the local stacks and leaves the block list as it is.
PopBlockStacksKeepsList(bbNum) ==
    LET r == PopLoop(bbNum, m_blockStack, m_lclStacks, NullPtr)
    IN  /\ m_lclStacks' = r.lclStacks
        /\ UNCHANGED <<m_blockStack, heap, m_freeStack, counts>>

PopBlockStacks(bbNum) ==
    LET firstFree == m_blockStack
        r         == PopLoop(bbNum, m_blockStack, m_lclStacks, NullPtr)
    IN  /\ m_lclStacks' = r.lclStacks
        /\ IF r.lastFree # NullPtr
           THEN /\ m_blockStack' = heap[r.lastFree].m_list
                \* FreeBlockStateList(firstFree, lastFree)
                /\ heap' = [heap EXCEPT ![r.lastFree].m_list = m_freeStack]
                /\ m_freeStack' = firstFree
           ELSE UNCHANGED <<m_blockStack, heap, m_freeStack>>
        /\ UNCHANGED counts

(***************************************************************************)
(* The dominator walk of SSA renaming: a block is entered once, renames    *)
(* its definitions (CountForDef, then Push of the number obtained) before  *)
(* it visits a child, and is popped after its children. Parameters and     *)
(* live-in locals get their first number through PushLclInit.              *)
(***************************************************************************)
WalkTop == walkPath[Len(walkPath)]

RECURSIVE SumCalls(_, _)
SumCalls(f, S) ==
    IF S = {} THEN 0
    ELSE LET x == CHOOSE y \in S : TRUE IN f[x] + SumCalls(f, S \ {x})

\* CountForDef calls made so far.
WalkDefTotal == SumCalls(walkDefCalls, Lcls)

\* A number obtained from CountForDef waits to be pushed.
WalkPendingDef == walkPending # <<>>

WalkCountForDef ==
    \E l \in Lcls :
        /\ ~WalkPendingDef
        /\ (walkPath # <<>> /\ walkCanPush) \/ (EnsureStacks[l] = NullPtr)
        /\ WalkDefTotal < MaxDefs
        /\ CountForDef(l)
        /\ walkPending' = <<l, CountForDefResult(l)>>
        /\ walkDefCalls' = [walkDefCalls EXCEPT ![l] = walkDefCalls[l] + 1]
        /\ UNCHANGED <<walkPath, walkVisited, walkCanPush, walkDefs, memVars, propVars>>

WalkCountForUse ==
    \E l \in Lcls :
        /\ ~WalkPendingDef
        /\ CountForUse(l)
        /\ UNCHANGED <<walkVars, memVars, propVars>>

WalkPushLclInit ==
    /\ WalkPendingDef
    /\ PushLclInit(walkPending[1], walkPending[2])
    /\ walkDefs' = [walkDefs EXCEPT ![walkPending[1]][0] = <<walkPending[2]>>]
    /\ walkPending' = <<>>
    /\ lastOp' = Op("PushLclInit", 0, walkPending[1], walkPending[2], 0, FALSE)
    /\ UNCHANGED <<walkPath, walkVisited, walkCanPush, walkDefCalls, memVars, propVars>>

WalkEnterBlock ==
    /\ ~WalkPendingDef
    /\ Cardinality(walkVisited) < MaxBlocks
    /\ (walkPath = <<>>) => (walkVisited = {})
    /\ LET b == Cardinality(walkVisited) + 1      \* blocks are numbered in preorder
       IN  /\ walkPath' = Append(walkPath, b)
           /\ walkVisited' = walkVisited \cup {b}
           /\ lastOp' = Op("EnterBlock", b, 0, 0, 0, FALSE)
    /\ walkCanPush' = TRUE
    /\ UNCHANGED <<renameVars, walkDefs, walkPending, walkDefCalls, memVars, propVars>>

WalkPush ==
    /\ WalkPendingDef
    /\ walkPath # <<>>
    /\ walkCanPush
    /\ Push(WalkTop, walkPending[1], walkPending[2])
    /\ walkDefs' = [walkDefs EXCEPT ![walkPending[1]][WalkTop] = <<walkPending[2]>>]
    /\ walkPending' = <<>>
    /\ lastOp' = Op("Push", WalkTop, walkPending[1], walkPending[2], 0, FALSE)
    /\ UNCHANGED <<walkPath, walkVisited, walkCanPush, walkDefCalls, memVars, propVars>>

WalkPopBlockStacks ==
    /\ ~WalkPendingDef
    /\ walkPath # <<>>
    /\ PopBlockStacks(WalkTop)
    /\ walkPath' = SubSeq(walkPath, 1, Len(walkPath) - 1)
    /\ walkCanPush' = FALSE
    /\ walkDefs' = [l \in Lcls |-> [walkDefs[l] EXCEPT ![WalkTop] = <<>>]]
    /\ lastOp' = Op("PopBlockStacks", WalkTop, 0, 0, 0, FALSE)
    /\ UNCHANGED <<walkVisited, walkPending, walkDefCalls, memVars, propVars>>

\* The same block popped a second time, right after its pop.
WalkPopBlockStacksAgain ==
    /\ lastOp.op = "PopBlockStacks"
    /\ ~lastOp.again
    /\ PopBlockStacks(lastOp.bb)
    /\ lastOp' = [lastOp EXCEPT !.again = TRUE]
    /\ UNCHANGED <<walkVars, memVars, propVars>>

MemIdle ==
    /\ memoryStack = <<>>
    /\ memoryCount = 0
    /\ byrefStatesMatchGcHeapStates = FALSE
    /\ memPopped = {}

EarlyIdle ==
    /\ rec = <<>>
    /\ fold = <<>>
    /\ jtrue = <<>>
    /\ pass = <<>>

PropIdle ==
    /\ lvaInSsa = {}
    /\ ssaDefs = <<>>
    /\ site = <<>>
    /\ propPc = "idle"
    /\ propShape = <<>>
    /\ EarlyIdle

Init ==
    /\ RenameInit
    /\ WalkInit
    /\ lastOp = NoOp
    /\ MemIdle
    /\ PropIdle

Next ==
    \/ WalkCountForDef
    \/ WalkCountForUse
    \/ WalkPushLclInit
    \/ WalkEnterBlock
    \/ WalkPush
    \/ WalkPopBlockStacks
    \/ WalkPopBlockStacksAgain

Spec == Init /\ [][Next]_vars

(***************************************************************************)
(* SsaRenameState: operations on the memory kinds.                         *)
(***************************************************************************)
MemoryKinds == {"ByrefExposed", "GcHeap"}

OtherKind(k) == IF k = "GcHeap" THEN "ByrefExposed" ELSE "GcHeap"

\* BlockState(bbNum, count)
BlockState(bbNum, count) == [m_bbNum |-> bbNum, m_count |-> count]

\* CountForMemoryDef: the value returned.
CountForMemoryDefResult ==
    IF memoryCount = 0 THEN FIRST_SSA_NUM ELSE memoryCount

CountForMemoryDef ==
    /\ memoryCount' = CountForMemoryDefResult + 1
    /\ UNCHANGED <<memoryStack, byrefStatesMatchGcHeapStates>>

\* CountForMemoryUse: the stack the request is served from.
CountForMemoryUseKind(memoryKind) ==
    IF (memoryKind = "GcHeap") /\ byrefStatesMatchGcHeapStates
    THEN "ByrefExposed"
    ELSE memoryKind

\* CountForMemoryUse: the values the call can return. back() of an empty list
\* is undefined: any number may come out.
CountForMemoryUseResults(memoryKind) ==
    LET st == memoryStack[CountForMemoryUseKind(memoryKind)]
    IN  IF st = <<>>
        THEN 0 .. (FIRST_SSA_NUM + MaxMemDefs)
        ELSE {st[Len(st)].m_count}

\* A PushMemory that does not share the stacks.
PushMemoryKindUnshared(memoryKind) == memoryKind

\* PushMemory: the stack the state is pushed on.
PushMemoryKind(memoryKind) ==
    IF (memoryKind = "GcHeap") /\ byrefStatesMatchGcHeapStates
    THEN "ByrefExposed"
    ELSE memoryKind

PushMemory(memoryKind, bbNum, count) ==
    /\ memoryStack' = [memoryStack EXCEPT ![PushMemoryKind(memoryKind)] =
                          Append(@, BlockState(bbNum, count))]
    /\ UNCHANGED <<memoryCount, byrefStatesMatchGcHeapStates>>

RECURSIVE PopMemoryLoop(_, _)
\* PopBlockMemoryStack: the while loop.
PopMemoryLoop(stack, bbNum) ==
    IF (stack # <<>>) /\ (stack[Len(stack)].m_bbNum = bbNum)
    THEN PopMemoryLoop(SubSeq(stack, 1, Len(stack) - 1), bbNum)
    ELSE stack

PopBlockMemoryStack(memoryKind, bbNum) ==
    /\ memoryStack' = [memoryStack EXCEPT ![memoryKind] = PopMemoryLoop(@, bbNum)]
    /\ UNCHANGED <<memoryCount, byrefStatesMatchGcHeapStates>>

(***************************************************************************)
(* The dominator walk over the memory kinds: a block pushes the numbers    *)
(* it obtains from CountForMemoryDef before it visits a child, and on exit *)
(* pops the stack of each memory kind.                                     *)
(***************************************************************************)
MemInit ==
    /\ memoryStack = [k \in MemoryKinds |-> <<>>]
    /\ memoryCount = 0
    /\ byrefStatesMatchGcHeapStates \in BOOLEAN
    /\ memPopped = {}

RenameIdle == RenameInit

MemCountForMemoryDef ==
    /\ ~WalkPendingDef
    /\ walkPath # <<>>
    /\ walkCanPush
    /\ CountForMemoryDefResult < FIRST_SSA_NUM + MaxMemDefs
    /\ CountForMemoryDef
    /\ walkPending' = <<CountForMemoryDefResult>>
    /\ lastOp' = MemOp("CountForMemoryDef", "", 0, 0, CountForMemoryDefResult)
    /\ UNCHANGED <<renameVars, walkPath, walkVisited, walkCanPush, walkDefs, walkDefCalls,
                   memPopped, propVars>>

MemCountForMemoryUse ==
    \E k \in MemoryKinds : \E r \in CountForMemoryUseResults(k) :
        /\ ~WalkPendingDef
        /\ lastOp' = MemOp("CountForMemoryUse", k, 0, 0, r)
        /\ UNCHANGED <<renameVars, walkVars, memVars, propVars>>

MemPushMemory ==
    \E k \in MemoryKinds :
        /\ WalkPendingDef
        /\ PushMemory(k, WalkTop, walkPending[1])
        /\ walkPending' = <<>>
        /\ lastOp' = MemOp("PushMemory", k, WalkTop, walkPending[1], 0)
        /\ UNCHANGED <<renameVars, walkPath, walkVisited, walkCanPush, walkDefs, walkDefCalls,
                       memPopped, propVars>>

MemPopBlockMemoryStack ==
    \E k \in MemoryKinds \ memPopped :
        /\ ~WalkPendingDef
        /\ walkPath # <<>>
        /\ PopBlockMemoryStack(k, WalkTop)
        /\ memPopped' = memPopped \cup {k}
        /\ walkCanPush' = FALSE
        /\ lastOp' = MemOp("PopBlockMemoryStack", k, WalkTop, 0, 0)
        /\ UNCHANGED <<renameVars, walkPath, walkVisited, walkDefs, walkPending, walkDefCalls,
                       propVars>>

MemLeaveBlock ==
    /\ walkPath # <<>>
    /\ memPopped = MemoryKinds
    /\ walkPath' = SubSeq(walkPath, 1, Len(walkPath) - 1)
    /\ memPopped' = {}
    /\ lastOp' = MemOp("LeaveBlock", "", WalkTop, 0, 0)
    /\ UNCHANGED <<renameVars, walkVisited, walkCanPush, walkDefs, walkPending, walkDefCalls,
                   memoryStack, memoryCount, byrefStatesMatchGcHeapStates, propVars>>

MemEnterBlock ==
    /\ memPopped = {}
    /\ WalkEnterBlock

InitMem ==
    /\ RenameIdle
    /\ WalkInit
    /\ lastOp = NoOp
    /\ MemInit
    /\ PropIdle

NextMem ==
    \/ MemEnterBlock
    \/ MemCountForMemoryDef
    \/ MemPushMemory
    \/ MemCountForMemoryUse
    \/ MemPopBlockMemoryStack
    \/ MemLeaveBlock

SpecMem == InitMem /\ [][NextMem]_vars


(***************************************************************************)
(* Early propagation: trees.                                               *)
(***************************************************************************)
INT32_MAX == 2147483647

optEarlyPropRecurBound == 5

\* An ssize_t value q * 2^31 + r with 0 <= r < 2^31 (the target is 64 bit).
Wide(q, r) == [q |-> q, r |-> r]

\* a < b on ssize_t values.
WideLess(a, b) == (a.q < b.q) \/ (a.q = b.q /\ a.r < b.r)

WideZero     == Wide(0, 0)
WideInt32Max == Wide(0, INT32_MAX)

\* A GenTree node. op1, index and args hold child nodes.
GenTree(oper) ==
    [oper |-> oper, gtType |-> "TYP_INT", lclNum |-> 0, ssaNum |-> 0, val |-> WideZero,
     callType |-> "", hnd |-> "", args |-> <<>>, op1 |-> <<>>, index |-> <<>>,
     arrIdx |-> FALSE, labelIndex |-> FALSE]

NullTree == GenTree("nullptr")

LclVarNode(lclNum, ssaNum) ==
    [GenTree("GT_LCL_VAR") EXCEPT !.lclNum = lclNum, !.ssaNum = ssaNum, !.gtType = "TYP_REF"]

IntConNode(val, type) ==
    [GenTree("GT_CNS_INT") EXCEPT !.val = val, !.gtType = type]

CallNode(callType, hnd, arg0, arg1) ==
    [GenTree("GT_CALL") EXCEPT !.callType = callType, !.hnd = hnd, !.args = <<arg0, arg1>>,
                               !.gtType = "TYP_REF"]

ArrLengthNode(op1, arrIdx) ==
    [GenTree("GT_ARR_LENGTH") EXCEPT !.op1 = <<op1>>, !.arrIdx = arrIdx]

\* An indirection of addr, of type gtType.
IndirNode(addr, gtType) ==
    [GenTree("GT_IND") EXCEPT !.op1 = <<addr>>, !.gtType = gtType]

\* An address mode base + offset, or base + index + offset when index is <<node>>.
AddrModeNode(base, index) ==
    [GenTree("GT_LEA") EXCEPT !.op1 = <<base>>, !.index = index, !.gtType = "TYP_BYREF"]

OperIsIndir(tree) ==
    tree.oper \in {"GT_IND", "GT_STOREIND", "GT_NULLCHECK", "GT_BLK", "GT_OBJ", "GT_DYN_BLK"}

OperIsAddrMode(tree) == tree.oper = "GT_LEA"

gtIsVtableRef(tree) ==
    /\ tree.oper = "GT_IND"
    /\ OperIsAddrMode(tree.op1[1])
    /\ tree.op1[1].index = <<>>
    /\ tree.op1[1].op1[1].gtType = "TYP_REF"

IsCnsIntOrI(tree) == tree.oper = "GT_CNS_INT"

OperIsScalarLocal(tree) == tree.oper = "GT_LCL_VAR"

\* gtArgEntryByArgNum(call, argNum)->node, argNum counted from 0.
gtArgEntryByArgNum(call, argNum) == call.args[argNum + 1]

NewArrHelpers ==
    {"CORINFO_HELP_NEWARR_1_DIRECT", "CORINFO_HELP_NEWARR_1_R2R_DIRECT",
     "CORINFO_HELP_NEWARR_1_OBJ", "CORINFO_HELP_NEWARR_1_VC", "CORINFO_HELP_NEWARR_1_ALIGN8"}

NewObjHelpers ==
    {"CORINFO_HELP_NEWFAST", "CORINFO_HELP_NEWSFAST", "CORINFO_HELP_NEWSFAST_FINALIZE",
     "CORINFO_HELP_NEWSFAST_ALIGN8", "CORINFO_HELP_NEWSFAST_ALIGN8_VC",
     "CORINFO_HELP_NEWSFAST_ALIGN8_FINALIZE"}

\* A getArrayLengthFromAllocation that returns argument 0.
getArrayLengthFromAllocationArg0(tree) ==
    IF /\ tree.oper = "GT_CALL"
       /\ tree.callType = "CT_HELPER"
       /\ tree.hnd \in NewArrHelpers
    THEN gtArgEntryByArgNum(tree, 0)
    ELSE NullTree

getArrayLengthFromAllocation(tree) ==
    IF /\ tree.oper = "GT_CALL"
       /\ tree.callType = "CT_HELPER"
       /\ tree.hnd \in NewArrHelpers
    THEN gtArgEntryByArgNum(tree, 1)
    ELSE NullTree

\* A getObjectHandleNodeFromAllocation that knows the object helpers only.
getObjectHandleNodeFromObjAllocation(tree) ==
    IF /\ tree.oper = "GT_CALL"
       /\ tree.callType = "CT_HELPER"
       /\ tree.hnd \in NewObjHelpers
    THEN gtArgEntryByArgNum(tree, 0)
    ELSE NullTree

getObjectHandleNodeFromAllocation(tree) ==
    IF /\ tree.oper = "GT_CALL"
       /\ tree.callType = "CT_HELPER"
       /\ tree.hnd \in (NewObjHelpers \cup NewArrHelpers)
    THEN gtArgEntryByArgNum(tree, 0)
    ELSE NullTree

(***************************************************************************)
(* Early propagation: the backward walk over SSA definitions.              *)
(***************************************************************************)
\* lvaTable[lclNum].GetPerSsaData(ssaNum)->m_defLoc, with the parent of m_tree:
\* hasTree is m_tree != nullptr, parentOper the operator of its parent and rhs
\* the parent's second operand.
DefLoc(hasTree, parentOper, rhs) ==
    [hasTree |-> hasTree, parentOper |-> parentOper, rhs |-> rhs]

\* A reading of the allocation that takes its argument whatever node it is.
ValueFromAllocationAnyNode(treeRhs, valueKind) ==
    IF valueKind = "OPK_ARRAYLEN" THEN getArrayLengthFromAllocation(treeRhs)
    ELSE IF valueKind = "OPK_OBJ_GETTYPE" THEN getObjectHandleNodeFromAllocation(treeRhs)
    ELSE NullTree

\* The value found at a definition that is not a copy of an SSA local.
ValueFromAllocation(treeRhs, valueKind) ==
    IF valueKind = "OPK_ARRAYLEN"
    THEN LET value == getArrayLengthFromAllocation(treeRhs)
         IN  IF (value # NullTree) /\ ~IsCnsIntOrI(value) THEN NullTree ELSE value
    ELSE IF valueKind = "OPK_OBJ_GETTYPE"
    THEN LET value == getObjectHandleNodeFromAllocation(treeRhs)
         IN  IF (value # NullTree) /\ ~IsCnsIntOrI(value) THEN NullTree ELSE value
    ELSE NullTree

\* An optPropGetValueRec that gives up one call earlier.
RECURSIVE optPropGetValueRecEarly(_, _, _, _)
optPropGetValueRecEarly(lclNum, ssaNum, valueKind, walkDepth) ==
    IF ssaNum = RESERVED_SSA_NUM THEN NullTree
    ELSE IF walkDepth >= optEarlyPropRecurBound THEN NullTree
    ELSE LET def == ssaDefs[<<lclNum, ssaNum>>]
         IN  IF ~def.hasTree THEN NullTree
             ELSE IF def.parentOper # "GT_ASG" THEN NullTree
             ELSE IF OperIsScalarLocal(def.rhs) /\ (def.rhs.lclNum \in lvaInSsa)
             THEN optPropGetValueRecEarly(def.rhs.lclNum, def.rhs.ssaNum, valueKind,
                                          walkDepth + 1)
             ELSE ValueFromAllocation(def.rhs, valueKind)

RECURSIVE optPropGetValueRec(_, _, _, _)
optPropGetValueRec(lclNum, ssaNum, valueKind, walkDepth) ==
    IF ssaNum = RESERVED_SSA_NUM THEN NullTree
    ELSE IF walkDepth > optEarlyPropRecurBound THEN NullTree
    ELSE LET def == ssaDefs[<<lclNum, ssaNum>>]
         IN  IF ~def.hasTree THEN NullTree
             ELSE IF def.parentOper # "GT_ASG" THEN NullTree
             ELSE IF OperIsScalarLocal(def.rhs) /\ (def.rhs.lclNum \in lvaInSsa)
             THEN optPropGetValueRec(def.rhs.lclNum, def.rhs.ssaNum, valueKind, walkDepth + 1)
             ELSE ValueFromAllocation(def.rhs, valueKind)

optPropGetValue(lclNum, ssaNum, valueKind) ==
    optPropGetValueRec(lclNum, ssaNum, valueKind, 0)

(***************************************************************************)
(* Early propagation: rewriting a site.                                    *)
(***************************************************************************)
\* The range test on a resolved array length that accepts every non-negative value.
ArrayLengthOutOfRangeNegativeOnly(actualConstVal) ==
    WideLess(actualConstVal, WideZero)

\* (actualConstVal < 0) || (actualConstVal > INT32_MAX)
ArrayLengthOutOfRange(actualConstVal) ==
    WideLess(actualConstVal, WideZero) \/ WideLess(WideInt32Max, actualConstVal)

\* The node after the site in execution order (site.next is <<>> when gtNext
\* is nullptr): its operator, whether its gtArrLen is the site, its gtIndex,
\* and where it hangs under its parent.
NextNode(oper, arrLenIsTree, index, parent) ==
    [oper |-> oper, arrLenIsTree |-> arrLenIsTree, gtIndex |-> index, parent |-> parent]

\* A test for the removal that also accepts an index equal to the length.
CanRemoveRangeCheckUpToLength(st, actualConstVal) ==
    /\ st.next # <<>>
    /\ st.next[1].oper = "GT_ARR_BOUNDS_CHECK"
    /\ st.next[1].arrLenIsTree
    /\ IsCnsIntOrI(st.next[1].gtIndex)
    /\ ~WideLess(st.next[1].gtIndex.val, WideZero)
    /\ ~WideLess(actualConstVal, st.next[1].gtIndex.val)
    /\ st.next[1].parent = "GT_COMMA.gtOp1"

\* The test that lets the bounds check after the site be removed.
CanRemoveRangeCheck(st, actualConstVal) ==
    /\ st.next # <<>>
    /\ st.next[1].oper = "GT_ARR_BOUNDS_CHECK"
    /\ st.next[1].arrLenIsTree
    /\ IsCnsIntOrI(st.next[1].gtIndex)
    /\ ~WideLess(st.next[1].gtIndex.val, WideZero)
    /\ WideLess(st.next[1].gtIndex.val, actualConstVal)
    /\ st.next[1].parent = "GT_COMMA.gtOp1"

\* optRemoveRangeCheck(comma, compCurStmt): the bounds check, and the length
\* read under it, leave the statement; a nop takes their place under the comma.
optRemoveRangeCheck(st) ==
    [st EXCEPT !.treeInStmt = FALSE, !.nextInStmt = FALSE, !.commaOp1 = "GT_NOP"]

\* gtCloneExpr(actualVal), retyped and labelled, as it replaces the site.
ActualValClone(tree, actualVal) ==
    [actualVal EXCEPT !.gtType = tree.gtType,
                      !.labelIndex = (tree.oper = "GT_ARR_LENGTH" /\ tree.arrIdx)]

\* Lines 288-388 for the operand objectRefPtr and the kind propKind.
RewriteFromOperand(st, objectRefPtr, propKind) ==
    IF ~OperIsScalarLocal(objectRefPtr) \/ (objectRefPtr.lclNum \notin lvaInSsa)
    THEN [st EXCEPT !.result = "nullptr"]
    ELSE LET actualVal == optPropGetValue(objectRefPtr.lclNum, objectRefPtr.ssaNum, propKind)
         IN  IF actualVal = NullTree THEN [st EXCEPT !.result = "nullptr"]
             ELSE IF propKind = "OPK_ARRAYLEN" /\ ArrayLengthOutOfRange(actualVal.val)
             THEN [st EXCEPT !.result = "nullptr"]
             ELSE IF propKind = "OPK_ARRAYLEN" /\ CanRemoveRangeCheck(st, actualVal.val)
             THEN [optRemoveRangeCheck(st) EXCEPT !.result = "comma->gtGetOp1()"]
             ELSE [st EXCEPT !.tree = ActualValClone(st.tree, actualVal), !.result = "tree"]

\* optEarlyPropRewriteTree(site.tree): the site afterwards, with the value
\* returned in result ("nullptr", "tree" or "comma->gtGetOp1()"). The blocks
\* of the sites examined here carry no BBF_HAS_NULLCHECK, so the call of
\* optFoldNullCheck at line 260 returns at once.
optEarlyPropRewriteTree(st) ==
    LET tree == st.tree
    IN  IF tree.oper = "GT_ARR_LENGTH"
        THEN RewriteFromOperand(st, tree.op1[1], "OPK_ARRAYLEN")
        ELSE IF OperIsIndir(tree)
        THEN IF gtIsVtableRef(tree)
             THEN IF st.isStmtRoot THEN [st EXCEPT !.result = "nullptr"]
                  ELSE RewriteFromOperand(st, tree.op1[1], "OPK_OBJ_GETTYPE")
             ELSE [st EXCEPT !.result = "nullptr"]
        ELSE [st EXCEPT !.result = "nullptr"]

(***************************************************************************)
(* Early propagation: the methods and sites examined.                      *)
(***************************************************************************)
PropLcls  == 0 .. MaxChain
NonSsaLcl == MaxChain + 1

\* Constants that occur as allocation lengths and as bounds-check indices:
\* -1, 0, 7, INT32_MAX and INT32_MAX + 1, with the type each is given.
IntConNodes ==
    {IntConNode(Wide(-1, INT32_MAX), "TYP_INT"), IntConNode(WideZero, "TYP_INT"),
     IntConNode(Wide(0, 7), "TYP_LONG"), IntConNode(WideInt32Max, "TYP_INT"),
     IntConNode(Wide(1, 0), "TYP_LONG")}

NonConstNode == LclVarNode(NonSsaLcl, RESERVED_SSA_NUM)

HandleNode == [IntConNode(Wide(0, 4096), "TYP_I_IMPL") EXCEPT !.hnd = "GTF_ICON_CLASS_HDL"]

CallKinds ==
    {<<"CT_HELPER", "CORINFO_HELP_NEWARR_1_DIRECT">>, <<"CT_HELPER", "CORINFO_HELP_NEWARR_1_OBJ">>,
     <<"CT_HELPER", "CORINFO_HELP_NEWSFAST">>, <<"CT_HELPER", "CORINFO_HELP_MEMCPY">>,
     <<"CT_USER_FUNC", "CORINFO_HELP_NEWARR_1_DIRECT">>}

\* The definitions a chain of copies can end at; the last of them copies v0
\* and so closes the chain into a cycle.
LastDefs ==
    {DefLoc(FALSE, "", NullTree)}
    \cup {DefLoc(TRUE, "GT_ASG", CallNode(c[1], c[2], HandleNode, a)) :
            c \in CallKinds, a \in IntConNodes \cup {NonConstNode}}
    \cup {DefLoc(TRUE, po, CallNode("CT_HELPER", "CORINFO_HELP_NEWARR_1_DIRECT", HandleNode,
                                    IntConNode(Wide(0, 7), "TYP_INT"))) : po \in {"GT_COMMA"}}
    \cup {DefLoc(TRUE, "GT_ASG", r) :
            r \in {GenTree("GT_PHI"), IntConNode(Wide(0, 7), "TYP_INT"),
                   LclVarNode(NonSsaLcl, FIRST_SSA_NUM), LclVarNode(MaxChain, RESERVED_SSA_NUM),
                   LclVarNode(0, FIRST_SSA_NUM)}}

\* v0 = v1, ..., v(k-1) = vk, and vk defined by last.
ChainDefs(k, last) ==
    [name \in PropLcls \X {FIRST_SSA_NUM} |->
        IF name[1] < k THEN DefLoc(TRUE, "GT_ASG", LclVarNode(name[1] + 1, FIRST_SSA_NUM))
        ELSE IF name[1] = k THEN last
        ELSE DefLoc(FALSE, "", NullTree)]

SiteOperands ==
    {LclVarNode(0, FIRST_SSA_NUM), LclVarNode(0, RESERVED_SSA_NUM),
     LclVarNode(NonSsaLcl, FIRST_SSA_NUM), GenTree("GT_LCL_FLD")}

SiteTrees ==
    {ArrLengthNode(o, x) : o \in SiteOperands, x \in BOOLEAN} \cup {GenTree("GT_ADD")}

SiteNexts ==
    {<<>>, <<NextNode("GT_ADD", FALSE, NullTree, "GT_ADD.gtOp1")>>}
    \cup {<<NextNode("GT_ARR_BOUNDS_CHECK", own, ix, par)>> :
            own \in BOOLEAN, ix \in IntConNodes \cup {NonConstNode},
            par \in {"GT_COMMA.gtOp1", "GT_COMMA.gtOp2", "GT_ASG.gtOp2", "nullptr"}}

\* The indirections handed over: of an address mode over an object reference
\* in SSA, with and without index, of an address mode over a byref, of a
\* local, and of a sum.
SiteIndirs ==
    {IndirNode(a, "TYP_I_IMPL") :
        a \in {AddrModeNode(LclVarNode(0, FIRST_SSA_NUM), <<>>),
               AddrModeNode(LclVarNode(0, FIRST_SSA_NUM), <<NonConstNode>>),
               AddrModeNode([LclVarNode(0, FIRST_SSA_NUM) EXCEPT !.gtType = "TYP_BYREF"], <<>>),
               LclVarNode(0, FIRST_SSA_NUM), GenTree("GT_ADD")}}

\* isStmtRoot: the site is the whole expression of its statement.
Site(tree, next) ==
    [tree |-> tree, next |-> next, treeInStmt |-> TRUE, nextInStmt |-> (next # <<>>),
     isStmtRoot |-> FALSE,
     commaOp1 |-> IF next # <<>> /\ next[1].parent = "GT_COMMA.gtOp1" THEN "next" ELSE "other",
     result |-> "none"]

PropInit ==
    /\ lvaInSsa = PropLcls
    /\ \E k \in 0 .. MaxChain, last \in LastDefs :
          /\ ssaDefs = ChainDefs(k, last)
          /\ propShape = [copies |-> k, last |-> last]
    /\ \/ \E t \in SiteTrees, n \in SiteNexts : site = Site(t, n)
       \/ \E t \in SiteIndirs, isStmtRoot \in BOOLEAN :
             site = [Site(t, <<>>) EXCEPT !.isStmtRoot = isStmtRoot]
    /\ propPc = "start"
    /\ EarlyIdle

PropRewriteTree ==
    /\ propPc = "start"
    /\ site' = optEarlyPropRewriteTree(site)
    /\ propPc' = "done"
    /\ UNCHANGED <<lvaInSsa, ssaDefs, propShape, earlyVars, renameVars, walkVars, lastOp, memVars>>

InitProp ==
    /\ RenameIdle
    /\ WalkInit
    /\ lastOp = NoOp
    /\ MemIdle
    /\ PropInit

NextProp == PropRewriteTree

SpecProp == InitProp /\ [][NextProp]_vars

(***************************************************************************)
(* Early propagation: the backward walk, one call of optPropGetValueRec    *)
(* at a time.                                                              *)
(***************************************************************************)
\* A call optPropGetValueRec(lclNum, ssaNum, valueKind, walkDepth) about to run.
RecCall(valueKind, lclNum, ssaNum, walkDepth) ==
    [pc |-> "call", valueKind |-> valueKind, lclNum |-> lclNum, ssaNum |-> ssaNum,
     walkDepth |-> walkDepth, value |-> NullTree]

\* The running call goes on to the recursive call at line 462.
RecRecurses ==
    /\ rec.ssaNum # RESERVED_SSA_NUM
    /\ ~(rec.walkDepth > optEarlyPropRecurBound)
    /\ ssaDefs[<<rec.lclNum, rec.ssaNum>>].hasTree
    /\ ssaDefs[<<rec.lclNum, rec.ssaNum>>].parentOper = "GT_ASG"
    /\ OperIsScalarLocal(ssaDefs[<<rec.lclNum, rec.ssaNum>>].rhs)
    /\ ssaDefs[<<rec.lclNum, rec.ssaNum>>].rhs.lclNum \in lvaInSsa

\* The value the running call returns when it makes no recursive call.
RecReturnValue ==
    IF rec.ssaNum = RESERVED_SSA_NUM THEN NullTree
    ELSE IF rec.walkDepth > optEarlyPropRecurBound THEN NullTree
    ELSE LET def == ssaDefs[<<rec.lclNum, rec.ssaNum>>]
         IN  IF ~def.hasTree THEN NullTree
             ELSE IF def.parentOper # "GT_ASG" THEN NullTree
             ELSE ValueFromAllocation(def.rhs, rec.valueKind)

\* The recursive call; its value is returned as it is by every caller.
RecRecurse ==
    /\ rec # <<>>
    /\ rec.pc = "call"
    /\ RecRecurses
    /\ rec' = RecCall(rec.valueKind, ssaDefs[<<rec.lclNum, rec.ssaNum>>].rhs.lclNum,
                      ssaDefs[<<rec.lclNum, rec.ssaNum>>].rhs.ssaNum, rec.walkDepth + 1)
    /\ UNCHANGED <<lvaInSsa, ssaDefs, site, propPc, propShape, fold, jtrue, pass, renameVars,
                   walkVars, lastOp, memVars>>

RecReturn ==
    /\ rec # <<>>
    /\ rec.pc = "call"
    /\ ~RecRecurses
    /\ rec' = [rec EXCEPT !.pc = "returned", !.value = RecReturnValue]
    /\ UNCHANGED <<lvaInSsa, ssaDefs, site, propPc, propShape, fold, jtrue, pass, renameVars,
                   walkVars, lastOp, memVars>>

\* optPropGetValue(v0, FIRST_SSA_NUM, valueKind) on a method of ChainDefs.
InitRec ==
    /\ RenameIdle
    /\ WalkInit
    /\ lastOp = NoOp
    /\ MemIdle
    /\ lvaInSsa = PropLcls
    /\ \E k \in 0 .. MaxChain, last \in LastDefs :
          /\ ssaDefs = ChainDefs(k, last)
          /\ propShape = [copies |-> k, last |-> last]
    /\ site = <<>>
    /\ propPc = "idle"
    /\ \E valueKind \in {"OPK_ARRAYLEN", "OPK_OBJ_GETTYPE"} :
          rec = RecCall(valueKind, 0, FIRST_SSA_NUM, 0)
    /\ fold = <<>>
    /\ jtrue = <<>>
    /\ pass = <<>>

NextRec == RecRecurse \/ RecReturn

SpecRec == InitRec /\ [][NextRec]_vars

(***************************************************************************)
(* Early propagation: folding a null check into a later indirection.       *)
(***************************************************************************)
maxNodesWalked == 25

compMaxUncheckedOffsetForNullObject == 32767

\* fgIsBigOffset(offset): the offset, taken as unsigned, is above the largest
\* offset at which an access through null is sure to fault.
fgIsBigOffset(offset) ==
    WideLess(offset, WideZero) \/ WideLess(Wide(0, compMaxUncheckedOffsetForNullObject), offset)

GTF_SIDE_EFFECT == {"GTF_ASG", "GTF_CALL", "GTF_EXCEPT"}

\* GTF_GLOBALLY_VISIBLE_SIDE_EFFECTS(flags): a call, an exception source, or
\* an assignment to global memory.
GTF_GLOBALLY_VISIBLE_SIDE_EFFECTS(gtFlags) ==
    \/ gtFlags \cap {"GTF_CALL", "GTF_EXCEPT"} # {}
    \/ {"GTF_ASG", "GTF_GLOB_REF"} \subseteq gtFlags

\* An optCanMoveNullCheckPastTree that applies the rule for try regions everywhere.
optCanMoveNullCheckPastTreeAsInTry(gtFlags, isInsideTry) ==
    gtFlags \cap GTF_SIDE_EFFECT = {}

\* optCanMoveNullCheckPastTree(tree, isInsideTry), tree given by its gtFlags.
optCanMoveNullCheckPastTree(gtFlags, isInsideTry) ==
    IF isInsideTry
    THEN gtFlags \cap GTF_SIDE_EFFECT = {}
    ELSE ~GTF_GLOBALLY_VISIBLE_SIDE_EFFECTS(gtFlags)

\* nodesWalked++ > maxNodesWalked: the value before the increment is compared.
NodeBudgetExceeded(nodesWalked) == nodesWalked > maxNodesWalked

\* One of the two loops of the walk: over trees[i..], nearest the indirection
\* first, with nodesWalked nodes inspected so far. Yields canRemoveNullCheck
\* and nodesWalked as the loop leaves them.
RECURSIVE WalkTrees(_, _, _, _)
WalkTrees(trees, i, nodesWalked, isInsideTry) ==
    IF i > Len(trees) THEN [canRemoveNullCheck |-> TRUE, nodesWalked |-> nodesWalked]
    ELSE IF NodeBudgetExceeded(nodesWalked)
            \/ ~optCanMoveNullCheckPastTree(trees[i], isInsideTry)
    THEN [canRemoveNullCheck |-> FALSE, nodesWalked |-> nodesWalked + 1]
    ELSE WalkTrees(trees, i + 1, nodesWalked + 1, isInsideTry)

\* The walk from the use to the definition: the nodes before the address
\* local in the indirection's statement, then, if none of them objects, the
\* roots of the statements back to the one holding the definition.
FoldWalk(f) ==
    LET first == WalkTrees(f.prevNodes, 1, 0, f.isInsideTry)
    IN  IF ~first.canRemoveNullCheck THEN first
        ELSE WalkTrees(f.stmtRoots, 1, first.nodesWalked, f.isInsideTry)

\* A match of the definition's right-hand side that follows a copy to the
\* definition of the copied local.
FoldPatternMatchesThroughCopy(f) ==
    /\ f.bbHasNullCheck
    /\ f.addrOper = "GT_LCL_VAR"
    /\ f.addrSsaNum # RESERVED_SSA_NUM
    /\ f.defInBlock
    /\ f.defParentOper = "GT_ASG"
    /\ f.defParentIsRoot
    /\ f.defRHSOper \in {"GT_COMMA", "GT_LCL_VAR"}
    /\ f.commaOp1Oper = "GT_NULLCHECK"
    /\ f.nullCheckOp1.oper = "GT_LCL_VAR"
    /\ f.commaOp2Oper = "GT_ADD"
    /\ f.addOp1.oper = "GT_LCL_VAR"
    /\ f.addOp1.lclNum = f.nullCheckOp1.lclNum
    /\ IsCnsIntOrI(f.offset)
    /\ ~fgIsBigOffset(f.offset.val)

\* The nest of tests that precedes the walk: the block is flagged, the address
\* is a local with a definition in this block, that definition is the root
\* x = (nullcheck(y), y + const) and const is no big offset.
FoldPatternMatches(f) ==
    /\ f.bbHasNullCheck
    /\ f.addrOper = "GT_LCL_VAR"
    /\ f.addrSsaNum # RESERVED_SSA_NUM
    /\ f.defInBlock
    /\ f.defParentOper = "GT_ASG"
    /\ f.defParentIsRoot
    /\ f.defRHSOper = "GT_COMMA"
    /\ f.commaOp1Oper = "GT_NULLCHECK"
    /\ f.nullCheckOp1.oper = "GT_LCL_VAR"
    /\ f.commaOp2Oper = "GT_ADD"
    /\ f.addOp1.oper = "GT_LCL_VAR"
    /\ f.addOp1.lclNum = f.nullCheckOp1.lclNum
    /\ IsCnsIntOrI(f.offset)
    /\ ~fgIsBigOffset(f.offset.val)

\* A removal that also gives the indirection the marks of the null check.
RemoveNullCheckMarkingIndir(f) ==
    [f EXCEPT
        !.nullCheckFlags = (@ \ {"GTF_EXCEPT", "GTF_DONT_CSE"})
                              \cup {"GTF_ORDER_SIDEEFF", "GTF_IND_NONFAULTING"},
        !.indirFlags = @ \cup {"GTF_ORDER_SIDEEFF", "GTF_IND_NONFAULTING"},
        !.defRHSFlags = (@ \ {"GTF_EXCEPT", "GTF_DONT_CSE"})
                           \cup (f.additionFlags \cap {"GTF_EXCEPT", "GTF_DONT_CSE"}),
        !.morphed = Append(@, "definition")]

\* The removal of the null check (lines 639-655): its flags, the flags of the
\* comma above it, and fgMorphBlockStmt on the statement of the definition.
RemoveNullCheck(f) ==
    [f EXCEPT
        !.nullCheckFlags = (@ \ {"GTF_EXCEPT", "GTF_DONT_CSE"})
                              \cup {"GTF_ORDER_SIDEEFF", "GTF_IND_NONFAULTING"},
        !.defRHSFlags = (@ \ {"GTF_EXCEPT", "GTF_DONT_CSE"})
                           \cup (f.additionFlags \cap {"GTF_EXCEPT", "GTF_DONT_CSE"}),
        !.morphed = Append(@, "definition")]

\* optFoldNullCheck(tree) for the indirection of the block f.
optFoldNullCheck(f) ==
    IF ~FoldPatternMatches(f) THEN f
    ELSE IF FoldWalk(f).canRemoveNullCheck THEN RemoveNullCheck(f)
    ELSE f

(***************************************************************************)
(* Early propagation: the blocks handed to optFoldNullCheck.               *)
(***************************************************************************)
\* The ways a block departs from x = (nullcheck(y), y + 8); ...; indir(x).
\* With "defRHSIsCopy" the block is t = (nullcheck(y), y + 8); ...; x = t;
\* ...; indir(x), and the fields of the comma describe the definition of t.
FoldDepartures ==
    {"none", "blockNotFlagged", "addrNotLocal", "addrSsaReserved", "defInOtherBlock",
     "defParentNotAsg", "defParentNotRoot", "defRHSIsCopy", "defRHSNotComma",
     "op1NotNullCheck", "nullCheckOfNonLocal", "op2NotAdd", "addOfNonLocal",
     "addOfOtherLocal", "offsetNotConst", "offsetBig"}

\* gtFlags of the nodes the walk may meet: none, an assignment to a local, an
\* assignment to global memory, a call, an exception source, a global read.
WalkedFlags ==
    {{"GTF_ASG"}, {"GTF_ASG", "GTF_GLOB_REF"}, {"GTF_CALL"}, {"GTF_EXCEPT"}, {"GTF_GLOB_REF"}}

\* n trees without flags, the one at index at (if any) carrying gtFlags.
TreesWith(n, at, gtFlags) == [i \in 1 .. n |-> IF i = at THEN gtFlags ELSE {}]

FoldBlock(departure, isInsideTry, additionFlags, prevNodes, stmtRoots) ==
    [pc |-> "start",
     departure |-> departure,
     bbHasNullCheck |-> departure # "blockNotFlagged",
     isInsideTry |-> isInsideTry,
     addrOper |-> IF departure = "addrNotLocal" THEN "GT_ADD" ELSE "GT_LCL_VAR",
     addrSsaNum |-> IF departure = "addrSsaReserved" THEN RESERVED_SSA_NUM ELSE FIRST_SSA_NUM,
     defInBlock |-> departure # "defInOtherBlock",
     defParentOper |-> IF departure = "defParentNotAsg" THEN "GT_COMMA" ELSE "GT_ASG",
     defParentIsRoot |-> departure # "defParentNotRoot",
     defRHSOper |-> IF departure = "defRHSIsCopy" THEN "GT_LCL_VAR"
                    ELSE IF departure = "defRHSNotComma" THEN "GT_ADD" ELSE "GT_COMMA",
     commaOp1Oper |-> IF departure = "op1NotNullCheck" THEN "GT_IND" ELSE "GT_NULLCHECK",
     nullCheckOp1 |-> IF departure = "nullCheckOfNonLocal"
                      THEN [oper |-> "GT_IND", lclNum |-> 0]
                      ELSE [oper |-> "GT_LCL_VAR", lclNum |-> 1],
     commaOp2Oper |-> IF departure = "op2NotAdd" THEN "GT_LCL_VAR" ELSE "GT_ADD",
     addOp1 |-> IF departure = "addOfNonLocal" THEN [oper |-> "GT_IND", lclNum |-> 0]
                ELSE IF departure = "addOfOtherLocal" THEN [oper |-> "GT_LCL_VAR", lclNum |-> 2]
                ELSE [oper |-> "GT_LCL_VAR", lclNum |-> 1],
     offset |-> IF departure = "offsetNotConst" THEN NonConstNode
                ELSE IF departure = "offsetBig" THEN IntConNode(Wide(0, 65536), "TYP_I_IMPL")
                ELSE IntConNode(Wide(0, 8), "TYP_I_IMPL"),
     prevNodes |-> prevNodes,
     stmtRoots |-> stmtRoots,
     nullCheckFlags |-> {"GTF_EXCEPT", "GTF_DONT_CSE"},
     defRHSFlags |-> {"GTF_EXCEPT", "GTF_DONT_CSE"} \cup additionFlags,
     additionFlags |-> additionFlags,
     indirFlags |-> {"GTF_EXCEPT", "GTF_GLOB_REF"},
     morphed |-> <<>>]

\* The blocks examined: up to MaxPrevNodes nodes before the address local and
\* up to MaxStmtRoots statements between definition and indirection, at most
\* one of them, the nearest to or the farthest from the indirection in its
\* list, carrying flags.
FoldInit ==
    \E departure \in FoldDepartures, isInsideTry \in BOOLEAN,
       additionFlags \in {{}, {"GTF_DONT_CSE"}},
       n1 \in 0 .. MaxPrevNodes, n2 \in 0 .. MaxStmtRoots :
        \/ fold = FoldBlock(departure, isInsideTry, additionFlags,
                            TreesWith(n1, 0, {}), TreesWith(n2, 0, {}))
        \/ \E gtFlags \in WalkedFlags, at \in {1, n1} :
              /\ n1 > 0
              /\ fold = FoldBlock(departure, isInsideTry, additionFlags,
                                  TreesWith(n1, at, gtFlags), TreesWith(n2, 0, {}))
        \/ \E gtFlags \in WalkedFlags, at \in {1, n2} :
              /\ n2 > 0
              /\ fold = FoldBlock(departure, isInsideTry, additionFlags,
                                  TreesWith(n1, 0, {}), TreesWith(n2, at, gtFlags))

FoldNullCheck ==
    /\ fold # <<>>
    /\ fold.pc = "start"
    /\ fold' = [optFoldNullCheck(fold) EXCEPT !.pc = "done"]
    /\ UNCHANGED <<lvaInSsa, ssaDefs, site, propPc, propShape, rec, jtrue, pass, renameVars,
                   walkVars, lastOp, memVars>>

InitFold ==
    /\ RenameIdle
    /\ WalkInit
    /\ lastOp = NoOp
    /\ MemIdle
    /\ lvaInSsa = {}
    /\ ssaDefs = <<>>
    /\ site = <<>>
    /\ propPc = "idle"
    /\ propShape = <<>>
    /\ rec = <<>>
    /\ jtrue = <<>>
    /\ pass = <<>>
    /\ FoldInit

NextFold == FoldNullCheck

SpecFold == InitFold /\ [][NextFold]_vars

(***************************************************************************)
(* Early propagation: hoisting a definition into a conditional branch.     *)
(***************************************************************************)
GTF_ALL_EFFECT == {"GTF_ASG", "GTF_CALL", "GTF_EXCEPT", "GTF_GLOB_REF", "GTF_ORDER_SIDEEFF"}

\* genActualType(type): small integer types widen to TYP_INT.
genActualType(type) ==
    IF type \in {"TYP_BOOL", "TYP_BYTE", "TYP_UBYTE", "TYP_SHORT", "TYP_USHORT"}
    THEN "TYP_INT" ELSE type

\* A node on the first-operand spine of an expression. An expression is the
\* sequence of these nodes from its root down to a leaf; gtFlags holds the
\* effects of the node and of everything below it.
ExprNode(oper, gtType, gtFlags, op2IsConst) ==
    [oper |-> oper, gtType |-> gtType, gtFlags |-> gtFlags, op2IsConst |-> op2IsConst,
     lclNum |-> 0, ssaNum |-> RESERVED_SSA_NUM]

\* A use of SSA local lclNum.
LclUse(lclNum, ssaNum, gtType) ==
    [ExprNode("GT_LCL_VAR", gtType, {}, FALSE) EXCEPT !.lclNum = lclNum, !.ssaNum = ssaNum]

MovableUnaryOpers == {"GT_NEG", "GT_NOT", "GT_CAST"}

MovableBinaryOpers ==
    {"GT_ADD", "GT_SUB", "GT_MUL", "GT_DIV", "GT_UDIV", "GT_MOD", "GT_UMOD", "GT_AND", "GT_OR",
     "GT_XOR", "GT_LSH", "GT_RSH", "GT_RSZ", "GT_ROL", "GT_ROR", "GT_EQ", "GT_NE", "GT_GT",
     "GT_GE", "GT_LT", "GT_LE"}

\* A test for movable nodes that overlooks their effects.
IsMovableIgnoringEffects(node) ==
    \/ node.oper \in MovableUnaryOpers
    \/ node.oper \in MovableBinaryOpers /\ node.op2IsConst

\* The condition of the while loop at lines 866-870.
IsMovable(node) ==
    /\ node.gtFlags \cap GTF_ALL_EFFECT = {}
    /\ \/ node.oper \in MovableUnaryOpers
       \/ node.oper \in MovableBinaryOpers /\ node.op2IsConst

\* The index in rhs of newRhs when the while loop ends.
RECURSIVE NewRhsIndex(_, _)
NewRhsIndex(rhs, i) ==
    IF IsMovable(rhs[i]) THEN NewRhsIndex(rhs, i + 1) ELSE i

\* A guard on the evaluation order that lets every comparison through.
SecondOperandMayInterfereNever(j) == FALSE

\* relop->IsReverseOp() && !relop->gtGetOp2()->OperIsConst()
SecondOperandMayInterfere(j) == j.isReverseOp /\ ~j.op2IsConst

\* The tests before the search, without the one for a single use.
JTrueNotApplicableAnyUses(j) ==
    \/ j.relopOp1[1].oper # "GT_LCL_VAR"
    \/ SecondOperandMayInterfere(j)
    \/ ~j.lvaTable[j.relopOp1[1].lclNum + 1].lvInSsa
    \/ ~j.defHasTree
    \/ ~j.defInBlock
    \/ j.asgLhs.oper # "GT_LCL_VAR"
    \/ j.asgRhs[1].oper = "GT_PHI"

\* The tests that end the function before any statement is looked for.
JTrueNotApplicable(j) ==
    \/ j.relopOp1[1].oper # "GT_LCL_VAR"
    \/ SecondOperandMayInterfere(j)
    \/ ~j.lvaTable[j.relopOp1[1].lclNum + 1].lvInSsa
    \/ ~j.isSingleUse
    \/ ~j.defHasTree
    \/ ~j.defInBlock
    \/ j.asgLhs.oper # "GT_LCL_VAR"
    \/ j.asgRhs[1].oper = "GT_PHI"

\* Lines 806-826: the definition is the statement before the branch. The
\* whole right-hand side replaces the local, the branch is morphed, and the
\* definition is removed. morphed tells what fgMorphTree made of the
\* condition: "compare" when it still is a comparison, "0" or "1" when it
\* folded to that constant and a comparison of constants is put in its place.
JTrueHoistAll(j, morphed) ==
    [j EXCEPT
        !.relopOp1 = IF morphed = "compare" THEN j.asgRhs
                     ELSE <<ExprNode("GT_CNS_INT", "TYP_INT", {}, FALSE)>>,
        !.condition = IF morphed = "compare" THEN "relop"
                      ELSE IF morphed = "0" THEN "GT_NE(0, 0)" ELSE "GT_EQ(0, 0)",
        !.morphedTrees = @ \cup {"jtrue"},
        !.stmtInfoSet = @ \cup {"jtrueStmt"},
        !.asgStmtInBlock = FALSE]

\* A retyping that changes the type of the local in place whatever the
\* number of its SSA definitions.
JTrueRetypeInPlace(j, newRhs) ==
    LET lclNum == j.relopOp1[1].lclNum
    IN  IF newRhs.gtType = j.lvaTable[lclNum + 1].lvType THEN j
        ELSE [j EXCEPT
                !.lvaTable[lclNum + 1].lvType = newRhs.gtType,
                !.asgLhs.gtType = newRhs.gtType,
                !.asgType = newRhs.gtType,
                !.relopOp1[1].gtType = newRhs.gtType]

\* Lines 892-930: the type of the local when newRhs has another type.
JTrueRetype(j, newRhs) ==
    LET lclNum == j.relopOp1[1].lclNum
    IN  IF newRhs.gtType = j.lvaTable[lclNum + 1].lvType THEN j
        ELSE IF j.lvaTable[lclNum + 1].ssaCount > 1
        THEN LET newLclNum == Len(j.lvaTable)      \* lvaGrabTemp
                 newSsaNum == FIRST_SSA_NUM
                 newType   == genActualType(newRhs.gtType)
             IN  [j EXCEPT
                    !.lvaTable = Append(@, [lvType |-> newType, lvInSsa |-> FALSE,
                                            lvTracked |-> FALSE, ssaCount |-> 1]),
                    !.asgLhs = [@ EXCEPT !.gtType = newType, !.lclNum = newLclNum,
                                         !.ssaNum = newSsaNum],
                    !.asgType = newType,
                    !.relopOp1 = <<LclUse(newLclNum, newSsaNum, newType)>>]
        ELSE [j EXCEPT
                !.lvaTable[lclNum + 1].lvType = newRhs.gtType,
                !.asgLhs.gtType = newRhs.gtType,
                !.asgType = newRhs.gtType,
                !.relopOp1[1].gtType = newRhs.gtType]

\* Lines 830-847: asgStmt after the search through the statements of the
\* block. It starts as jtrueStmt->gtPrevStmt (line 783) and the loop assigns
\* it only when it finds the statement whose root is the assignment, so when
\* the assignment is no statement root asgStmt still is the statement before
\* the branch, and is nullptr only when the branch has no statement before it.
SearchedAsgStmt(j) ==
    IF j.asgStmtPos = "earlier" THEN "asgStmt"
    ELSE IF j.asgStmtPos = "nested" THEN "jtrueStmt->gtPrevStmt"
    ELSE "nullptr"

\* Lines 863-953: the movable nodes at the top of the right-hand side go to
\* the branch, the local takes their place below them, both trees are morphed,
\* and the statement asgStmt and the statement of the branch are set up anew.
JTrueHoistPart(j, asgStmt) ==
    LET k == NewRhsIndex(j.asgRhs, 1)
    IN  IF k = 1 THEN j
        ELSE LET r == JTrueRetype(j, j.asgRhs[k])
             IN  [r EXCEPT
                    !.asgRhs = SubSeq(j.asgRhs, k, Len(j.asgRhs)),
                    !.relopOp1 = SubSeq(j.asgRhs, 1, k - 1) \o r.relopOp1,
                    !.morphedTrees = @ \cup {"asg", "jtrue"},
                    !.stmtInfoSet = @ \cup {asgStmt, "jtrueStmt"}]

\* optDoEarlyPropForJTrue(block) for the block j.
optDoEarlyPropForJTrue(j, morphed) ==
    IF JTrueNotApplicable(j) THEN j
    ELSE IF j.asgStmtPos = "previous" THEN JTrueHoistAll(j, morphed)
    ELSE IF SearchedAsgStmt(j) = "nullptr" THEN j
    ELSE JTrueHoistPart(j, SearchedAsgStmt(j))

(***************************************************************************)
(* Early propagation: the blocks handed to optDoEarlyPropForJTrue.         *)
(***************************************************************************)
ExprLeaves ==
    {LclUse(1, FIRST_SSA_NUM, "TYP_INT"), LclUse(2, FIRST_SSA_NUM, "TYP_LONG"),
     LclUse(3, FIRST_SSA_NUM, "TYP_SHORT"),
     ExprNode("GT_CNS_INT", "TYP_INT", {}, FALSE), ExprNode("GT_PHI", "TYP_INT", {}, FALSE),
     ExprNode("GT_CALL", "TYP_INT", {"GTF_CALL"}, FALSE)}

\* The expressions made by putting one more node on top of expression e: a
\* negation, a cast to int, a mask with a constant, a sum with a non-constant,
\* a division by a constant that can raise.
ExprsOver(e) ==
    {<<ExprNode("GT_NEG", genActualType(e[1].gtType), e[1].gtFlags, FALSE)>> \o e,
     <<ExprNode("GT_CAST", "TYP_INT", e[1].gtFlags, FALSE)>> \o e,
     <<ExprNode("GT_AND", genActualType(e[1].gtType), e[1].gtFlags, TRUE)>> \o e,
     <<ExprNode("GT_ADD", genActualType(e[1].gtType), e[1].gtFlags, FALSE)>> \o e,
     <<ExprNode("GT_DIV", genActualType(e[1].gtType), e[1].gtFlags \cup {"GTF_EXCEPT"}, TRUE)>>
        \o e}

\* The expressions of at most n nodes down the first-operand spine.
RECURSIVE Exprs(_)
Exprs(n) ==
    IF n = 1 THEN {<<l>> : l \in ExprLeaves}
    ELSE Exprs(n - 1) \cup UNION {ExprsOver(e) : e \in {x \in Exprs(n - 1) : Len(x) = n - 1}}

\* The ways a block departs from t = e; if (t relop c) with t an SSA local
\* that has this one use and is defined in this block.
JTrueDepartures ==
    {"none", "op1NotLocal", "localNotInSsa", "multipleUses", "noDefTree", "defInOtherBlock",
     "defOfLclFld"}

\* The definitions the first local of a right-hand side that is a bare local
\* can have: none in this block, or a = e in the statement before the
\* definition of t ("previous") or in an earlier one.
LeafDefs(rhs) ==
    IF Len(rhs) = 1 /\ rhs[1].oper = "GT_LCL_VAR"
    THEN {<<>>} \cup
         {<<[isSingleUse |-> u, asgStmtPos |-> pos, asgRhs |-> e]>> :
             u \in BOOLEAN, pos \in {"previous", "earlier"},
             e \in {<<ExprNode("GT_AND", "TYP_INT", {}, TRUE), LclUse(2, FIRST_SSA_NUM, "TYP_INT")>>,
                    <<ExprNode("GT_PHI", "TYP_INT", {}, FALSE)>>}}
    ELSE {<<>>}

\* lvaTable holds t (local 0) and the locals 1..3 that the leaves read.
JTrueBlock(departure, isReverseOp, op2IsConst, asgStmtPos, ssaCount, rhs, leafDef) ==
    [pc |-> "start",
     leafDef |-> leafDef,
     departure |-> departure,
     relopOp1 |-> IF departure = "op1NotLocal"
                  THEN <<ExprNode("GT_IND", "TYP_INT", {"GTF_EXCEPT", "GTF_GLOB_REF"}, FALSE)>>
                  ELSE <<LclUse(0, FIRST_SSA_NUM, genActualType(rhs[1].gtType))>>,
     isReverseOp |-> isReverseOp,
     op2IsConst |-> op2IsConst,
     condition |-> "relop",
     lvaTable |-> <<[lvType |-> genActualType(rhs[1].gtType),
                     lvInSsa |-> departure # "localNotInSsa", lvTracked |-> TRUE,
                     ssaCount |-> ssaCount],
                    [lvType |-> "TYP_INT", lvInSsa |-> TRUE, lvTracked |-> TRUE, ssaCount |-> 1],
                    [lvType |-> "TYP_LONG", lvInSsa |-> TRUE, lvTracked |-> TRUE, ssaCount |-> 1],
                    [lvType |-> "TYP_SHORT", lvInSsa |-> TRUE, lvTracked |-> TRUE,
                     ssaCount |-> 1]>>,
     isSingleUse |-> departure # "multipleUses",
     defHasTree |-> departure # "noDefTree",
     defInBlock |-> departure # "defInOtherBlock",
     asgLhs |-> [oper |-> IF departure = "defOfLclFld" THEN "GT_LCL_FLD" ELSE "GT_LCL_VAR",
                 lclNum |-> 0, ssaNum |-> FIRST_SSA_NUM,
                 gtType |-> genActualType(rhs[1].gtType)],
     asgType |-> genActualType(rhs[1].gtType),
     asgRhs |-> rhs,
     asgStmtPos |-> asgStmtPos,
     asgStmtInBlock |-> TRUE,
     morphedTrees |-> {},
     stmtInfoSet |-> {}]

\* The definition is the statement before the branch ("previous"), an earlier
\* statement of the block ("earlier"), no statement root but part of a
\* statement before the branch ("nested"), or part of the second operand of
\* the comparison in a block whose only statement is the branch
\* ("nestedInBranch"); in the last case the second operand is no constant and
\* is evaluated first.
JTrueInit ==
    \E departure \in JTrueDepartures, isReverseOp \in BOOLEAN, op2IsConst \in BOOLEAN,
       asgStmtPos \in {"previous", "earlier", "nested", "nestedInBranch"}, ssaCount \in {1, 2},
       rhs \in Exprs(MaxExprNodes) :
        \E leafDef \in LeafDefs(rhs) :
            /\ (asgStmtPos = "nestedInBranch") => (isReverseOp /\ ~op2IsConst)
            /\ jtrue = JTrueBlock(departure, isReverseOp, op2IsConst, asgStmtPos, ssaCount, rhs,
                                  leafDef)

DoEarlyPropForJTrue ==
    /\ jtrue # <<>>
    /\ jtrue.pc = "start"
    /\ \E morphed \in {"compare", "0", "1"} :
          jtrue' = [optDoEarlyPropForJTrue(jtrue, morphed) EXCEPT !.pc = "done"]
    /\ UNCHANGED <<lvaInSsa, ssaDefs, site, propPc, propShape, rec, fold, pass, renameVars, walkVars,
                   lastOp, memVars>>

\* The block as a second run of optEarlyProp finds it. When the first
\* operand of the comparison is now a local other than t, its definition is
\* the one the function reads; the statement before the branch is the one
\* that stood before the definition of t if that definition was removed.
JTrueAsFoundAgain(j) ==
    IF j.relopOp1[1].oper = "GT_LCL_VAR" /\ j.relopOp1[1].lclNum \in 1 .. 3
    THEN IF j.leafDef = <<>>
         THEN [j EXCEPT !.defHasTree = FALSE]
         ELSE [j EXCEPT
                !.isSingleUse = j.leafDef[1].isSingleUse,
                !.defHasTree = TRUE,
                !.defInBlock = TRUE,
                !.asgLhs = [oper |-> "GT_LCL_VAR", lclNum |-> j.relopOp1[1].lclNum,
                            ssaNum |-> j.relopOp1[1].ssaNum, gtType |-> j.relopOp1[1].gtType],
                !.asgType = j.relopOp1[1].gtType,
                !.asgRhs = j.leafDef[1].asgRhs,
                !.asgStmtPos = IF j.asgStmtInBlock THEN "earlier" ELSE j.leafDef[1].asgStmtPos,
                !.asgStmtInBlock = TRUE]
    ELSE j

\* optEarlyProp run once more on the method the first run has left.
DoEarlyPropForJTrueAgain ==
    /\ jtrue # <<>>
    /\ jtrue.pc = "done"
    /\ \E morphed \in {"compare", "0", "1"} :
          jtrue' = [optDoEarlyPropForJTrue(JTrueAsFoundAgain(jtrue), morphed)
                        EXCEPT !.pc = "again"]
    /\ UNCHANGED <<lvaInSsa, ssaDefs, site, propPc, propShape, rec, fold, pass, renameVars, walkVars,
                   lastOp, memVars>>

InitJTrue ==
    /\ RenameIdle
    /\ WalkInit
    /\ lastOp = NoOp
    /\ MemIdle
    /\ lvaInSsa = {}
    /\ ssaDefs = <<>>
    /\ site = <<>>
    /\ propPc = "idle"
    /\ propShape = <<>>
    /\ rec = <<>>
    /\ fold = <<>>
    /\ pass = <<>>
    /\ JTrueInit

NextJTrue == DoEarlyPropForJTrue \/ DoEarlyPropForJTrueAgain

SpecJTrue == InitJTrue /\ [][NextJTrue]_vars

(***************************************************************************)
(* Properties of the rename state for locals, checked under Spec.          *)
(***************************************************************************)
\* The frames on the stack of local l, top first, with owner and version.
LclFrames(l) ==
    [i \in 1 .. Len(LclStack(l)) |->
        <<LclStack(l)[i], heap[LclStack(l)[i]].m_bbNum, heap[LclStack(l)[i]].m_ssaNum>>]

\* Positions on the walk path of the open blocks that pushed local l.
OpenDefs(l) == {i \in 1 .. Len(walkPath) : walkDefs[l][walkPath[i]] # <<>>}

\* The version a use of l must see: the last one pushed by the innermost open
\* block that pushed l, else the PushLclInit version, else UNINIT_SSA_NUM.
VisibleVersion(l) ==
    IF OpenDefs(l) # {}
    THEN LET i == CHOOSE j \in OpenDefs(l) : \A k \in OpenDefs(l) : k <= j
         IN  walkDefs[l][walkPath[i]][1]
    ELSE IF walkDefs[l][0] # <<>> THEN walkDefs[l][0][1] ELSE UNINIT_SSA_NUM

\* C1: at every point of a well-nested walk CountForUse(v) returns the version
\* most recently pushed for v by a block still open on the current path, the
\* PushLclInit version when no open block pushed v, and UNINIT_SSA_NUM when
\* nothing was pushed for v on the current path.
C1_UseSeesInnermostOpenDef ==
    /\ \A l \in Lcls : CountForUseResult(l) = VisibleVersion(l)
    /\ (lastOp.op = "CountForUse") => (lastOp.result = VisibleVersion(lastOp.lcl))

\* C1 witness: a use inside a second child block that pushed nothing for the
\* local sees the version of the root block, a sibling's frame being retired.
C1_Witness ==
    /\ lastOp.op = "CountForUse"
    /\ Len(walkPath) = 2
    /\ walkDefs[lastOp.lcl][WalkTop] = <<>>
    /\ walkDefs[lastOp.lcl][walkPath[1]] # <<>>
    /\ lastOp.result = walkDefs[lastOp.lcl][walkPath[1]][1]
    /\ \E f \in Range(FreeList) : heap[f].m_lclNum = lastOp.lcl

\* C2: a second PopBlockStacks(b) right after the first changes no variable
\* stack, nor the block list, nor the free pool.
C2_SecondPopIsNoOp ==
    [][(lastOp'.op = "PopBlockStacks" /\ lastOp'.again) => UNCHANGED renameVars]_vars

\* C2 witness: the block popped twice had frames (now heading the free pool)
\* and frames of other blocks are still on the block list.
C2_Witness ==
    /\ lastOp.op = "PopBlockStacks"
    /\ lastOp.again
    /\ m_freeStack # NullPtr
    /\ heap[m_freeStack].m_bbNum = lastOp.bb
    /\ m_blockStack # NullPtr

\* C3: in a well-nested walk PopBlockStacks(b) removes exactly the top frame
\* from the stack of each local pushed in b, leaves every other stack as it
\* was, and leaves no stack whose top frame is owned by b.
C3_PopRemovesOneFramePerDef ==
    [][(lastOp'.op = "PopBlockStacks" /\ ~lastOp'.again) =>
          \A l \in Lcls :
              /\ IF walkDefs[l][lastOp'.bb] # <<>>
                 THEN /\ LclFrames(l) # <<>>
                      /\ LclFrames(l)' = Tail(LclFrames(l))
                 ELSE LclFrames(l)' = LclFrames(l)
              /\ (LclFrames(l)' # <<>>) => (LclFrames(l)'[1][2] # lastOp'.bb)]_vars

\* C3 witness: the popped block had pushed one local and not the other, whose
\* stack is not empty.
C3_Witness ==
    /\ lastOp.op = "PopBlockStacks"
    /\ ~lastOp.again
    /\ m_freeStack # NullPtr
    /\ heap[m_freeStack].m_bbNum = lastOp.bb
    /\ \E l \in Lcls : /\ l # heap[m_freeStack].m_lclNum
                       /\ LclStack(l) # <<>>
                       /\ \A f \in Range(FreeList) : heap[f].m_lclNum # l

\* No stack holds two frames owned by the same block.
OneFramePerBlock ==
    \A l \in Lcls : \A i, j \in 1 .. Len(LclFrames(l)) :
        (i # j) => (LclFrames(l)[i][2] # LclFrames(l)[j][2])

\* C4: no stack ever holds two frames of one block: a Push(b, v, n) made while
\* the top frame of v belongs to b overwrites that frame's version and changes
\* neither the depth of v's stack nor the block list; any other Push puts
\* exactly one new frame on v's stack and on the block list.
C4_OneFramePerBlockPerLocal ==
    [][/\ OneFramePerBlock'
       /\ \A l \in Lcls :
             (lastOp'.op = "Push" /\ lastOp'.lcl = l) =>
                LET old == LclFrames(l)
                IN  IF (old # <<>>) /\ (old[1][2] = lastOp'.bb)
                    THEN /\ LclFrames(l)' = <<<<old[1][1], old[1][2], lastOp'.ssa>>>> \o Tail(old)
                         /\ BlockList' = BlockList
                    ELSE /\ Len(LclFrames(l)') = Len(old) + 1
                         /\ Tail(LclFrames(l)') = old
                         /\ LclFrames(l)'[1][2] = lastOp'.bb
                         /\ LclFrames(l)'[1][3] = lastOp'.ssa
                         /\ BlockList' = <<LclFrames(l)'[1][1]>> \o BlockList]_vars

\* C4 witness: a Push overwrote: the local was defined twice and its stack
\* holds the one frame of the pushing block, with the second version.
C4_Witness ==
    /\ lastOp.op = "Push"
    /\ walkDefCalls[lastOp.lcl] = 2
    /\ Len(LclFrames(lastOp.lcl)) = 1
    /\ LclFrames(lastOp.lcl)[1][2] = lastOp.bb
    /\ LclFrames(lastOp.lcl)[1][3] = FIRST_SSA_NUM + 1

\* C5: the i-th CountForDef(v), i = 0, 1, ..., returns FIRST_SSA_NUM + i
\* whatever was asked for other locals, and changes no stack, so CountForUse
\* of every local is the same before and after.
C5_DefNumbersAreConsecutive ==
    [][(lastOp'.op = "CountForDef") =>
          /\ lastOp'.result = FIRST_SSA_NUM + walkDefCalls[lastOp'.lcl]
          /\ \A l \in Lcls : /\ LclFrames(l)' = LclFrames(l)
                             /\ CountForUseResult(l)' = CountForUseResult(l)]_vars

\* C5 witness: the second definition of a local, made after a definition of
\* another local that sits on a stack.
C5_Witness ==
    /\ lastOp.op = "CountForDef"
    /\ lastOp.result = FIRST_SSA_NUM + 1
    /\ \E l \in Lcls : l # lastOp.lcl /\ walkDefCalls[l] = 1 /\ LclStack(l) # <<>>

\* C8: the PushLclInit frame of a local stays at the bottom of its stack: it is
\* never on the block list nor in the free pool, it is the only frame of
\* block 0, it is pushed on an empty stack, and CountForUse returns its version
\* whenever no open block has pushed the local.
C8_InitFrameIsNeverRetired ==
    \A l \in Lcls :
        (walkDefs[l][0] # <<>>) =>
            LET fs == LclFrames(l)
            IN  /\ fs # <<>>
                /\ fs[Len(fs)][2] = 0
                /\ fs[Len(fs)][3] = walkDefs[l][0][1]
                /\ \A i \in 1 .. (Len(fs) - 1) : fs[i][2] # 0
                /\ fs[Len(fs)][1] \notin Range(BlockList)
                /\ fs[Len(fs)][1] \notin Range(FreeList)
                /\ (OpenDefs(l) = {}) => (CountForUseResult(l) = walkDefs[l][0][1])
                /\ (lastOp.op = "PushLclInit" /\ lastOp.lcl = l) => (Len(fs) = 1)

\* C8 witness: after the walk, a use of a local that was initialised and then
\* pushed by a block since popped returns the initial version.
C8_Witness ==
    /\ lastOp.op = "CountForUse"
    /\ walkPath = <<>>
    /\ walkVisited # {}
    /\ walkDefs[lastOp.lcl][0] # <<>>
    /\ lastOp.result = walkDefs[lastOp.lcl][0][1]
    /\ \E f \in Range(FreeList) : heap[f].m_lclNum = lastOp.lcl

(***************************************************************************)
(* Properties of the rename state for the memory kinds, under SpecMem.     *)
(***************************************************************************)
\* C6: with byrefStatesMatchGcHeapStates set, a version pushed by PushMemory
\* for GcHeap is the one CountForMemoryUse returns for ByrefExposed, and the
\* other way round; with the flag clear, a push for one memory kind leaves
\* the stack of the other kind, and the version returned for it, unchanged.
C6_AliasedKindsShareOneStack ==
    [][\A k \in MemoryKinds :
          (lastOp'.op = "PushMemory" /\ lastOp'.kind = k) =>
              /\ CountForMemoryUseResults(k)' = {lastOp'.ssa}
              /\ IF byrefStatesMatchGcHeapStates
                 THEN CountForMemoryUseResults(OtherKind(k))' = {lastOp'.ssa}
                 ELSE /\ memoryStack'[OtherKind(k)] = memoryStack[OtherKind(k)]
                      /\ CountForMemoryUseResults(OtherKind(k))' =
                            CountForMemoryUseResults(OtherKind(k))]_vars

\* C6 witness: with the flag set, a use of ByrefExposed returns the version
\* that the innermost block pushed for GcHeap over one pushed before.
C6_Witness ==
    /\ byrefStatesMatchGcHeapStates
    /\ lastOp.op = "PushMemory"
    /\ lastOp.kind = "GcHeap"
    /\ Len(memoryStack["ByrefExposed"]) >= 2
    /\ CountForMemoryUseResults("ByrefExposed") = {lastOp.ssa}

\* C7: with byrefStatesMatchGcHeapStates set, PopBlockMemoryStack(GcHeap, b)
\* retires the frames b pushed on the shared stack: after it CountForMemoryUse
\* of GcHeap returns no version pushed by b.
C7_PopRetiresSharedFrames ==
    (/\ byrefStatesMatchGcHeapStates
     /\ lastOp.op = "PopBlockMemoryStack"
     /\ lastOp.kind = "GcHeap") =>
        LET st == memoryStack[CountForMemoryUseKind("GcHeap")]
        IN  (st = <<>>) \/ (st[Len(st)].m_bbNum # lastOp.bb)

(***************************************************************************)
(* Properties of early propagation, checked under SpecProp.                *)
(***************************************************************************)
\* The site is an array-length read whose operand is a local in SSA with a
\* valid SSA number.
SiteReadsSsaLocal ==
    /\ site.tree.oper = "GT_ARR_LENGTH"
    /\ site.tree.op1[1].oper = "GT_LCL_VAR"
    /\ site.tree.op1[1].lclNum \in lvaInSsa
    /\ site.tree.op1[1].ssaNum # RESERVED_SSA_NUM

\* The operand's chain of copies ends at an assignment from an array-allocation helper.
ChainEndsAtNewArr ==
    /\ propShape.last.hasTree
    /\ propShape.last.parentOper = "GT_ASG"
    /\ propShape.last.rhs.oper = "GT_CALL"
    /\ propShape.last.rhs.callType = "CT_HELPER"
    /\ propShape.last.rhs.hnd \in NewArrHelpers

\* The length argument of the allocation the chain ends at.
ChainLengthArg == propShape.last.rhs.args[2]

ChainLengthIsLiteral == ChainLengthArg.oper = "GT_CNS_INT"

\* 0 <= n <= INT32_MAX for the literal length n.
ChainLengthInRange ==
    /\ ChainLengthArg.val.q = 0
    /\ ChainLengthArg.val.r >= 0
    /\ ChainLengthArg.val.r <= INT32_MAX

\* The node after the read is a bounds check on this read, first operand of a
\* comma, whose index is a literal c with 0 <= c < n.
ReadFeedsCheckInRange ==
    /\ site.next # <<>>
    /\ site.next[1].oper = "GT_ARR_BOUNDS_CHECK"
    /\ site.next[1].arrLenIsTree
    /\ site.next[1].parent = "GT_COMMA.gtOp1"
    /\ site.next[1].gtIndex.oper = "GT_CNS_INT"
    /\ site.next[1].gtIndex.val.q = 0
    /\ site.next[1].gtIndex.val.r < ChainLengthArg.val.r

\* The read has become the literal n, of the read's type, and nothing else changed.
ReadBecomesLength ==
    /\ site'.tree.oper = "GT_CNS_INT"
    /\ site'.tree.val = ChainLengthArg.val
    /\ site'.tree.gtType = site.tree.gtType
    /\ site'.result = "tree"
    /\ site'.treeInStmt
    /\ site'.next = site.next
    /\ site'.nextInStmt = site.nextInStmt

\* The read and the node after it are as they were, and nothing was returned.
SiteLeftUnchanged ==
    site' = [site EXCEPT !.result = "nullptr"]

\* C9 as stated: an array-length read of an SSA local whose chain reaches,
\* within the depth bound, an assignment from an array-allocation helper is
\* rewritten to the constant n when the length argument is a literal n with
\* 0 <= n <= INT32_MAX, and is not rewritten when the argument is not a constant.
C9_ReadRewrittenToLength ==
    [][(propPc = "start" /\ SiteReadsSsaLocal /\ ChainEndsAtNewArr
            /\ propShape.copies <= optEarlyPropRecurBound)
        => /\ (ChainLengthIsLiteral /\ ChainLengthInRange) => ReadBecomesLength
           /\ ~ChainLengthIsLiteral => SiteLeftUnchanged]_vars

\* C9, amended: as above, except that when the read is the length of the
\* bounds check that follows it, the check is the first operand of a comma and
\* its index is a literal c with 0 <= c < n, the read is not rewritten: it
\* leaves the statement together with the check, a nop taking their place
\* under the comma, and the comma's first operand is returned.
C9_ReadRewrittenOrRemovedWithCheck ==
    [][(propPc = "start" /\ SiteReadsSsaLocal /\ ChainEndsAtNewArr
            /\ propShape.copies <= optEarlyPropRecurBound)
        => /\ (ChainLengthIsLiteral /\ ChainLengthInRange /\ ~ReadFeedsCheckInRange)
                => ReadBecomesLength
           /\ (ChainLengthIsLiteral /\ ChainLengthInRange /\ ReadFeedsCheckInRange)
                => /\ site'.tree = site.tree
                   /\ ~site'.treeInStmt
                   /\ ~site'.nextInStmt
                   /\ site'.commaOp1 = "GT_NOP"
                   /\ site'.result = "comma->gtGetOp1()"
           /\ ~ChainLengthIsLiteral => SiteLeftUnchanged]_vars

\* A read at the end of the longest chain within the bound has become the
\* literal length of the allocation, beside a bounds check that was kept.
C9_Witness ==
    /\ propPc = "done"
    /\ propShape.copies = optEarlyPropRecurBound
    /\ ChainEndsAtNewArr
    /\ ChainLengthIsLiteral
    /\ ChainLengthInRange
    /\ site.result = "tree"
    /\ site.tree.oper = "GT_CNS_INT"
    /\ site.tree.val = ChainLengthArg.val
    /\ site.next # <<>>
    /\ site.next[1].oper = "GT_ARR_BOUNDS_CHECK"
    /\ site.nextInStmt

\* The literal length n is negative or greater than INT32_MAX.
ChainLengthOutOfRange ==
    \/ ChainLengthArg.val.q < 0
    \/ ChainLengthArg.val.q > 0

\* C10: an array-length read whose chain ends at an array-allocation helper
\* with a literal length that is negative or greater than INT32_MAX is never
\* rewritten; the read and any bounds check after it are left as they were.
C10_OutOfRangeLengthNotRewritten ==
    [][(propPc = "start" /\ site.tree.oper = "GT_ARR_LENGTH" /\ ChainEndsAtNewArr
            /\ ChainLengthIsLiteral /\ ChainLengthOutOfRange)
        => SiteLeftUnchanged]_vars

\* A read of an SSA local whose chain, within the bound, ends at an allocation
\* of INT32_MAX + 1 elements was handed to the rewrite and is still a read,
\* with the bounds check on it, of literal index 0 under a comma, still there.
C10_Witness ==
    /\ propPc = "done"
    /\ SiteReadsSsaLocal
    /\ propShape.copies <= optEarlyPropRecurBound
    /\ ChainEndsAtNewArr
    /\ ChainLengthIsLiteral
    /\ ChainLengthArg.val = Wide(1, 0)
    /\ site.result = "nullptr"
    /\ site.treeInStmt
    /\ site.next # <<>>
    /\ site.next[1].oper = "GT_ARR_BOUNDS_CHECK"
    /\ site.next[1].arrLenIsTree
    /\ site.next[1].parent = "GT_COMMA.gtOp1"
    /\ site.next[1].gtIndex = IntConNode(WideZero, "TYP_INT")
    /\ site.nextInStmt

(***************************************************************************)
(* Properties of the backward walk, checked under SpecRec.                 *)
(***************************************************************************)
\* The chain of copies ends at an assignment from an allocation helper that
\* the walk for valueKind recognizes, called with a literal in the argument
\* the walk reads.
ChainEndsAtConstAllocation(valueKind) ==
    /\ propShape.last.hasTree
    /\ propShape.last.parentOper = "GT_ASG"
    /\ propShape.last.rhs.oper = "GT_CALL"
    /\ propShape.last.rhs.callType = "CT_HELPER"
    /\ \/ /\ valueKind = "OPK_ARRAYLEN"
          /\ propShape.last.rhs.hnd \in NewArrHelpers
          /\ propShape.last.rhs.args[2].oper = "GT_CNS_INT"
       \/ /\ valueKind = "OPK_OBJ_GETTYPE"
          /\ propShape.last.rhs.hnd \in NewArrHelpers \cup NewObjHelpers
          /\ propShape.last.rhs.args[1].oper = "GT_CNS_INT"

\* The literal argument the walk for valueKind reads at the allocation.
ChainAllocationArg(valueKind) ==
    IF valueKind = "OPK_ARRAYLEN" THEN propShape.last.rhs.args[2]
    ELSE propShape.last.rhs.args[1]

\* C11: for a chain of k copies v0 = v1, ..., vk = allocation(literal),
\* resolving v0 from depth 0 yields the literal for every k not above
\* optEarlyPropRecurBound and no value for every k of at least the bound
\* plus one; whatever the definitions are, cycles included, no call runs at
\* a depth above the bound plus one. The value is the one optPropGetValue
\* computes.
C11_CopyChainResolvesWithinBound ==
    /\ rec.walkDepth <= optEarlyPropRecurBound + 1
    /\ (rec.pc = "returned" /\ ChainEndsAtConstAllocation(rec.valueKind))
        => IF propShape.copies <= optEarlyPropRecurBound
           THEN rec.value = ChainAllocationArg(rec.valueKind)
           ELSE rec.value = NullTree
    /\ rec.pc = "returned" => rec.value = optPropGetValue(0, FIRST_SSA_NUM, rec.valueKind)

\* A chain of bound + 1 copies ending at an allocation of literal length has
\* been walked to depth bound + 1 and has yielded no value.
C11_Witness ==
    /\ rec.pc = "returned"
    /\ propShape.copies = optEarlyPropRecurBound + 1
    /\ ChainEndsAtConstAllocation(rec.valueKind)
    /\ rec.walkDepth = optEarlyPropRecurBound + 1
    /\ rec.value = NullTree

(***************************************************************************)
(* Properties of the null-check fold, checked under SpecFold.              *)
(***************************************************************************)
\* gtFlags of the nodes between the definition and the indirection that the
\* walk would have to pass.
FoldIntervening == Range(fold.prevNodes) \cup Range(fold.stmtRoots)

FoldInterveningCount == Len(fold.prevNodes) + Len(fold.stmtRoots)

\* No call and no write to global memory lies between definition and indirection.
NoCallOrGlobalWriteBetween ==
    \A gtFlags \in FoldIntervening :
        /\ "GTF_CALL" \notin gtFlags
        /\ ~({"GTF_ASG", "GTF_GLOB_REF"} \subseteq gtFlags)

\* The null check, the comma above it and the indirection are as they were,
\* and no statement was morphed.
FoldLeftUntouched ==
    fold' = [fold EXCEPT !.pc = "done"]

\* C12 as stated: in a block outside any try region that holds
\* t = (nullcheck(p), p + 8); ...; x = t; ...; load(x) with no call and no
\* global write in between, processing load(x) clears the exception flag of
\* the null check; with a call in between the null check is left untouched.
C12_FoldThroughCopy ==
    [][(fold.pc = "start" /\ fold.departure = "defRHSIsCopy" /\ ~fold.isInsideTry)
        => /\ NoCallOrGlobalWriteBetween => "GTF_EXCEPT" \notin fold'.nullCheckFlags
           /\ (\E gtFlags \in FoldIntervening : "GTF_CALL" \in gtFlags)
                => FoldLeftUntouched]_vars

\* C12, amended: the fold needs the dereferenced local itself to be defined
\* by the comma. In a block outside any try region that holds
\* x = (nullcheck(p), p + 8); ...; load(x), with at most maxNodesWalked + 1
\* nodes in between and none of them a call, an exception source or a write
\* to global memory, processing load(x) clears the exception flag of the null
\* check; with a call in between, or with x defined by a copy x = t of the
\* local that the comma defines, the null check is left untouched.
C12_FoldOfDirectDefinition ==
    [][(fold.pc = "start" /\ ~fold.isInsideTry)
        => /\ (/\ fold.departure = "none"
               /\ NoCallOrGlobalWriteBetween
               /\ \A gtFlags \in FoldIntervening : "GTF_EXCEPT" \notin gtFlags
               /\ FoldInterveningCount <= maxNodesWalked + 1)
                => "GTF_EXCEPT" \notin fold'.nullCheckFlags
           /\ (/\ fold.departure = "none"
               /\ \E gtFlags \in FoldIntervening : "GTF_CALL" \in gtFlags)
                => FoldLeftUntouched
           /\ fold.departure = "defRHSIsCopy" => FoldLeftUntouched]_vars

\* Outside a try region, the null check of x = (nullcheck(p), p + 8) has lost
\* its exception flag past three statements, one of them assigning a local.
C12_Witness ==
    /\ fold # <<>>
    /\ fold.pc = "done"
    /\ fold.departure = "none"
    /\ ~fold.isInsideTry
    /\ Len(fold.stmtRoots) = 3
    /\ {"GTF_ASG"} \in Range(fold.stmtRoots)
    /\ "GTF_EXCEPT" \notin fold.nullCheckFlags

(***************************************************************************)
(* Properties of the branch-operand hoister, checked under SpecJTrue.      *)
(***************************************************************************)
\* The first operand of the comparison is an SSA local with a single use
\* whose definition t = e, e no phi, is the statement before the branch.
DefinitionPrecedesBranch ==
    /\ jtrue.relopOp1[1].oper = "GT_LCL_VAR"
    /\ jtrue.lvaTable[jtrue.relopOp1[1].lclNum + 1].lvInSsa
    /\ jtrue.isSingleUse
    /\ jtrue.defHasTree
    /\ jtrue.defInBlock
    /\ jtrue.asgLhs.oper = "GT_LCL_VAR"
    /\ jtrue.asgRhs[1].oper # "GT_PHI"
    /\ jtrue.asgStmtPos = "previous"

\* The definition statement has left the block and the comparison, where
\* morphing left one, has the whole of e as its first operand.
WholeDefinitionHoisted ==
    /\ ~jtrue'.asgStmtInBlock
    /\ jtrue'.condition = "relop" => jtrue'.relopOp1 = jtrue.asgRhs
    /\ jtrue'.condition # "relop" => jtrue'.condition \in {"GT_NE(0, 0)", "GT_EQ(0, 0)"}

\* C13 as stated: when the comparison's first operand is an SSA local t with
\* a single use whose non-phi definition t = e is the statement immediately
\* before the branch in the same block, t is replaced in the comparison by
\* the whole of e and the definition statement is deleted.
C13_DefinitionHoistedIntoBranch ==
    [][(jtrue.pc = "start" /\ DefinitionPrecedesBranch) => WholeDefinitionHoisted]_vars

\* C13, amended: the same, provided the comparison does not evaluate a
\* non-constant second operand before its first operand; when it does, the
\* block is left as it was.
C13_DefinitionHoistedUnlessReversed ==
    [][(jtrue.pc = "start" /\ DefinitionPrecedesBranch)
        => IF jtrue.isReverseOp /\ ~jtrue.op2IsConst
           THEN jtrue' = [jtrue EXCEPT !.pc = "done"]
           ELSE WholeDefinitionHoisted]_vars

\* t = a & c; if (t relop c') has become if ((a & c) relop c') and the
\* definition statement is gone.
C13_Witness ==
    /\ jtrue # <<>>
    /\ jtrue.pc = "done"
    /\ jtrue.departure = "none"
    /\ jtrue.asgStmtPos = "previous"
    /\ ~jtrue.asgStmtInBlock
    /\ jtrue.condition = "relop"
    /\ Len(jtrue.relopOp1) = 2
    /\ jtrue.relopOp1[1].oper = "GT_AND"
    /\ jtrue.relopOp1[2] = LclUse(1, FIRST_SSA_NUM, "TYP_INT")

\* C14: a second run of optEarlyProp on the method the first run produced
\* rewrites nothing; here, it hoists no branch operand, morphs no tree and
\* removes no statement.
C14_SecondRunChangesNothing ==
    [][(jtrue.pc = "done")
        => /\ jtrue'.relopOp1 = jtrue.relopOp1
           /\ jtrue'.condition = jtrue.condition
           /\ jtrue'.morphedTrees = jtrue.morphedTrees
           /\ jtrue'.stmtInfoSet = jtrue.stmtInfoSet
           /\ jtrue'.lvaTable = jtrue.lvaTable]_vars

(***************************************************************************)
(* More properties of early propagation, checked under SpecProp.           *)
(***************************************************************************)
\* The resolver has a value for the site: it reads the length of an SSA local
\* whose chain, within the bound, ends at an array allocation of a literal
\* length between 0 and INT32_MAX. In every other case - operand no SSA
\* local, reserved SSA number, parameter, definition that is neither copy nor
\* array allocation, length not a literal, chain beyond the bound, length out
\* of range - it has none.
SiteHasValue ==
    /\ SiteReadsSsaLocal
    /\ propShape.copies <= optEarlyPropRecurBound
    /\ ChainEndsAtNewArr
    /\ ChainLengthIsLiteral
    /\ ChainLengthInRange

\* C15: when optEarlyPropRewriteTree finds no value for a site it returns
\* nullptr and the site, its operands and its statement are as before; a
\* call that returns nullptr has changed nothing, and a call that returns a
\* tree has replaced the whole site or removed it with its bounds check.
C15_FailureLeavesSiteUntouched ==
    [][(propPc = "start")
        => /\ ~SiteHasValue => SiteLeftUnchanged
           /\ site'.result = "nullptr" => SiteLeftUnchanged
           /\ site'.result = "tree" => ReadBecomesLength
           /\ site'.result = "comma->gtGetOp1()"
                => (site'.tree = site.tree /\ ~site'.treeInStmt /\ ~site'.nextInStmt)
           /\ site'.result \in {"nullptr", "tree", "comma->gtGetOp1()"}]_vars

\* A read whose chain of bound + 1 copies ends at an array allocation of
\* literal length was handed over and is still a read in its statement, as is
\* the bounds check on it.
C15_Witness ==
    /\ propPc = "done"
    /\ SiteReadsSsaLocal
    /\ propShape.copies = optEarlyPropRecurBound + 1
    /\ ChainEndsAtNewArr
    /\ ChainLengthIsLiteral
    /\ ChainLengthInRange
    /\ site.result = "nullptr"
    /\ site.treeInStmt
    /\ site.next # <<>>
    /\ site.next[1].oper = "GT_ARR_BOUNDS_CHECK"
    /\ site.next[1].arrLenIsTree
    /\ site.nextInStmt

(***************************************************************************)
(* More properties of the rename state for locals, checked under Spec.     *)
(***************************************************************************)
\* C16: a Push that needs a new frame takes it from the free pool whenever
\* the pool is not empty, and allocates fresh storage only when the pool is
\* empty.
C16_PushReusesFreeFrames ==
    [][(lastOp'.op = "Push" /\ Len(heap') > Len(heap)) => m_freeStack = NullPtr]_vars

\* The frames on the stacks of the locals.
FramesOnLclStacks == UNION {Range(LclStack(l)) : l \in Lcls}

\* The position of block bbNum on the path of open blocks, 0 if it is not open.
WalkDepthOf(bbNum) ==
    IF \E i \in 1 .. Len(walkPath) : walkPath[i] = bbNum
    THEN CHOOSE i \in 1 .. Len(walkPath) : walkPath[i] = bbNum
    ELSE 0

\* C17: in every state of a well-nested walk the block list holds exactly
\* the frames made by Push that are still on some local's stack, and so no
\* frame of PushLclInit; the owners of the frames along the block list are
\* open blocks, innermost first, the frames of one block next to each other;
\* the frames at the head of the block list that PopBlockStacks of their
\* block visits are each the top of their local's stack; and no frame is both
\* on a local's stack and in the free pool.
C17_BlockListIsNested ==
    /\ Range(BlockList) = {f \in FramesOnLclStacks : heap[f].m_bbNum # 0}
    /\ \A i \in 1 .. Len(BlockList) : WalkDepthOf(heap[BlockList[i]].m_bbNum) > 0
    /\ \A i \in 1 .. Len(BlockList) : \A k \in 1 .. Len(BlockList) :
          i < k => WalkDepthOf(heap[BlockList[i]].m_bbNum)
                      >= WalkDepthOf(heap[BlockList[k]].m_bbNum)
    /\ \A i \in 1 .. Len(BlockList) :
          heap[BlockList[i]].m_bbNum = heap[m_blockStack].m_bbNum
              => EnsureStacks[heap[BlockList[i]].m_lclNum] = BlockList[i]
    /\ FramesOnLclStacks \cap Range(FreeList) = {}

\* Two open blocks own frames on the block list while a frame retired by
\* PopBlockStacks sits in the free pool.
C17_Witness ==
    /\ Len(BlockList) >= 2
    /\ heap[BlockList[1]].m_bbNum # heap[BlockList[Len(BlockList)]].m_bbNum
    /\ FreeList # <<>>

(***************************************************************************)
(* More properties of the null-check fold, checked under SpecFold.         *)
(***************************************************************************)
\* A node with these gtFlags stands in the way of the null check: in a try
\* region a call, an exception source or any assignment; outside one a call,
\* an exception source or an assignment to global memory.
Disqualifying(gtFlags, isInsideTry) ==
    \/ "GTF_CALL" \in gtFlags
    \/ "GTF_EXCEPT" \in gtFlags
    \/ "GTF_ASG" \in gtFlags /\ (isInsideTry \/ "GTF_GLOB_REF" \in gtFlags)

NoDisqualifyingBetween ==
    \A gtFlags \in FoldIntervening : ~Disqualifying(gtFlags, fold.isInsideTry)

\* The step removes the null check: its exception flag is cleared.
FoldSucceeds == "GTF_EXCEPT" \notin fold'.nullCheckFlags

\* C18: the fold is rejected whenever more than maxNodesWalked = 25 nodes lie
\* on the walk, the nodes before the address local in the indirection's
\* statement and the statement roots back to the definition counted together;
\* with 25 or fewer nodes, none of them disqualifying, a block of the shape
\* x = (nullcheck(y), y + const); ...; indir(x) is folded.
C18_FoldRejectedBeyondBudget ==
    [][fold.pc = "start"
        => /\ FoldInterveningCount > maxNodesWalked => FoldLeftUntouched
           /\ (/\ fold.departure = "none"
               /\ FoldInterveningCount <= maxNodesWalked
               /\ NoDisqualifyingBetween) => FoldSucceeds]_vars

\* What the walk does: it accepts maxNodesWalked + 1 nodes and rejects more.
FoldBudgetAsCoded ==
    [][fold.pc = "start"
        => /\ FoldInterveningCount > maxNodesWalked + 1 => FoldLeftUntouched
           /\ (/\ fold.departure = "none"
               /\ FoldInterveningCount <= maxNodesWalked + 1
               /\ NoDisqualifyingBetween) => FoldSucceeds]_vars

\* The block is x = (nullcheck(y), y + const); ...; indir(x) and the walk back
\* to the definition meets at most maxNodesWalked + 1 nodes, none disqualifying.
FoldApplies ==
    /\ fold.departure = "none"
    /\ FoldInterveningCount <= maxNodesWalked + 1
    /\ NoDisqualifyingBetween

NonFaultingMarks == {"GTF_ORDER_SIDEEFF", "GTF_IND_NONFAULTING"}

FoldDecidedByEffects ==
    /\ fold.pc = "start"
    /\ fold.departure = "none"
    /\ FoldInterveningCount <= maxNodesWalked + 1

\* C20 as stated: the fold never moves a null check past a disqualifying
\* node. In a try region a node between with any side effect, an assignment
\* to a local included, blocks the fold; outside one the fold is blocked by a
\* node between that is a call or a write to global memory, and by nothing
\* else.
C20_OnlyCallOrGlobalWriteBlocksOutsideTry ==
    [][FoldDecidedByEffects
        => IF fold.isInsideTry
           THEN (\E gtFlags \in FoldIntervening : gtFlags \cap GTF_SIDE_EFFECT # {})
                    => FoldLeftUntouched
           ELSE FoldSucceeds <=> NoCallOrGlobalWriteBetween]_vars

\* C20, amended: in a try region the fold goes through exactly when no node
\* between is a call, an exception source or an assignment of any kind;
\* outside one exactly when no node between is a call, an exception source or
\* an assignment to global memory, so that an assignment to a local between
\* does not block it there. A fold that does not go through changes nothing.
C20_NoFoldPastDisqualifyingEffect ==
    [][FoldDecidedByEffects
        => /\ FoldSucceeds <=> NoDisqualifyingBetween
           /\ ~NoDisqualifyingBetween => FoldLeftUntouched
           /\ (/\ ~fold.isInsideTry
               /\ \A gtFlags \in FoldIntervening : gtFlags \in {{}, {"GTF_ASG"}})
                => FoldSucceeds]_vars

\* Outside a try region the null check was folded past an assignment to a
\* local that precedes the address in the statement of the indirection.
C20_Witness ==
    /\ fold # <<>>
    /\ fold.pc = "done"
    /\ fold.departure = "none"
    /\ ~fold.isInsideTry
    /\ {"GTF_ASG"} \in Range(fold.prevNodes)
    /\ Len(fold.stmtRoots) > 0
    /\ "GTF_EXCEPT" \notin fold.nullCheckFlags

(***************************************************************************)
(* More properties of early propagation, checked under SpecProp.           *)
(***************************************************************************)
\* The read resolves to a literal length n, 0 <= n <= INT32_MAX, so that the
\* rewrite reaches the look at the node that follows the read.
ReadResolvesToLength ==
    /\ propPc = "start"
    /\ SiteReadsSsaLocal
    /\ ChainEndsAtNewArr
    /\ propShape.copies <= optEarlyPropRecurBound
    /\ ChainLengthIsLiteral
    /\ ChainLengthInRange

\* The node after the read has left the statement.
NextNodeRemoved == site.nextInStmt /\ ~site'.nextInStmt

\* C21: when an array-length read resolves to a constant n, the bounds check
\* that is the next node is removed only if it reads this same length node,
\* its index is a constant c with 0 <= c < n and it is the first operand of
\* its comma, and then it is removed; for c < 0, for c >= n, c = n included,
\* and for any other shape, the node after the read is kept as it was and the
\* read is replaced by the constant n.
C21_CheckRemovedOnlyWithinLength ==
    [][ReadResolvesToLength
        => /\ NextNodeRemoved <=> ReadFeedsCheckInRange
           /\ ~ReadFeedsCheckInRange => ReadBecomesLength]_vars

\* A bounds check on the read, first operand of a comma, whose constant index
\* equals the length n, is still in the statement after the read became n.
C21_Witness ==
    /\ propPc = "done"
    /\ site.tree.oper = "GT_CNS_INT"
    /\ site.result = "tree"
    /\ site.next # <<>>
    /\ site.next[1].oper = "GT_ARR_BOUNDS_CHECK"
    /\ site.next[1].arrLenIsTree
    /\ site.next[1].parent = "GT_COMMA.gtOp1"
    /\ site.next[1].gtIndex.oper = "GT_CNS_INT"
    /\ site.next[1].gtIndex.val = site.tree.val
    /\ site.nextInStmt

(***************************************************************************)
(* More properties of the branch-operand hoister, checked under SpecJTrue. *)
(***************************************************************************)
\* The block, its statements and the table of locals are as they were.
JTrueLeftUntouched ==
    jtrue' = [jtrue EXCEPT !.pc = "done"]

\* C22: the hoister changes nothing in the block when the comparison
\* evaluates its second operand first and that operand is no constant, and
\* likewise when the local has more than one use, has no producing tree, is
\* defined in another block, or is defined by a phi.
C22_HoisterRejectsWithoutChange ==
    [][(/\ jtrue.pc = "start"
        /\ \/ jtrue.isReverseOp /\ ~jtrue.op2IsConst
           \/ ~jtrue.isSingleUse
           \/ ~jtrue.defHasTree
           \/ ~jtrue.defInBlock
           \/ jtrue.asgRhs[1].oper = "GT_PHI")
        => JTrueLeftUntouched]_vars

\* A block t = e; if (t relop x), e no phi and not a bare local, x read before
\* t and no constant, went through the hoister and still holds t = e.
C22_Witness ==
    /\ jtrue # <<>>
    /\ jtrue.pc = "done"
    /\ jtrue.departure = "none"
    /\ jtrue.isReverseOp
    /\ ~jtrue.op2IsConst
    /\ jtrue.asgStmtPos = "previous"
    /\ Len(jtrue.asgRhs) > 1
    /\ jtrue.asgStmtInBlock
    /\ jtrue.morphedTrees = {}

\* The hoister gets past its preliminary tests with a definition that is not
\* the statement before the branch.
JTrueDefinitionFartherBack ==
    /\ jtrue.pc = "start"
    /\ jtrue.departure = "none"
    /\ ~(jtrue.isReverseOp /\ ~jtrue.op2IsConst)
    /\ jtrue.asgRhs[1].oper # "GT_PHI"
    /\ jtrue.asgStmtPos \in {"earlier", "nested"}

\* The node has no side effect and is a negation, a complement, a cast, or a
\* binary operator of the arithmetic, bitwise, shift and comparison kinds with
\* a constant second operand.
QualifiesForMove(node) ==
    /\ node.gtFlags \cap {"GTF_ASG", "GTF_CALL", "GTF_EXCEPT", "GTF_GLOB_REF",
                          "GTF_ORDER_SIDEEFF"} = {}
    /\ \/ node.oper \in {"GT_NEG", "GT_NOT", "GT_CAST"}
       \/ /\ node.oper \in MovableBinaryOpers
          /\ node.op2IsConst

\* The number of nodes above the local in the first operand of the comparison.
NodesMoved == Len(jtrue'.relopOp1) - 1

LeftInDefinition ==
    jtrue.asgRhs[CHOOSE k \in 1 .. Len(jtrue.asgRhs) :
                    /\ ~QualifiesForMove(jtrue.asgRhs[k])
                    /\ \A i \in 1 .. k - 1 : QualifiesForMove(jtrue.asgRhs[i])]

\* The entry of the local t in lvaTable.
JTrueLclDesc == jtrue.lvaTable[jtrue.asgLhs.lclNum + 1]

\* A partial hoist is made and what it leaves in the definition has another
\* type than the local.
PartialHoistChangesType ==
    /\ JTrueDefinitionFartherBack
    /\ QualifiesForMove(jtrue.asgRhs[1])
    /\ LeftInDefinition.gtType # JTrueLclDesc.lvType

\* The variable read at the bottom of the chain in the condition.
JTrueUseAfter == jtrue'.relopOp1[Len(jtrue'.relopOp1)]

\* C24: in a partial hoist that leaves in the definition a sub-expression of
\* another type than the local's: a local with one SSA version has its type
\* changed in place and stays the target of the definition and the variable
\* read in the branch; for a local with more versions the entries of lvaTable
\* that existed are unchanged, one entry is added for a temporary that is not
\* in SSA and not tracked, and the target of the definition and the use in the
\* branch both name that temporary.
C24_RetypeInPlaceOrFreshTemp ==
    [][PartialHoistChangesType
        => IF JTrueLclDesc.ssaCount = 1
           THEN /\ jtrue'.lvaTable
                     = [jtrue.lvaTable EXCEPT ![jtrue.asgLhs.lclNum + 1].lvType
                                                  = LeftInDefinition.gtType]
                /\ jtrue'.asgLhs.lclNum = jtrue.asgLhs.lclNum
                /\ JTrueUseAfter.lclNum = jtrue.asgLhs.lclNum
                /\ jtrue'.asgLhs.gtType = LeftInDefinition.gtType
                /\ JTrueUseAfter.gtType = LeftInDefinition.gtType
           ELSE /\ Len(jtrue'.lvaTable) = Len(jtrue.lvaTable) + 1
                /\ SubSeq(jtrue'.lvaTable, 1, Len(jtrue.lvaTable)) = jtrue.lvaTable
                /\ ~jtrue'.lvaTable[Len(jtrue'.lvaTable)].lvInSsa
                /\ ~jtrue'.lvaTable[Len(jtrue'.lvaTable)].lvTracked
                /\ jtrue'.asgLhs.lclNum = Len(jtrue.lvaTable)
                /\ JTrueUseAfter.oper = "GT_LCL_VAR"
                /\ JTrueUseAfter.lclNum = Len(jtrue.lvaTable)
                /\ JTrueUseAfter.ssaNum = jtrue'.asgLhs.ssaNum]_vars

\* A cast was moved off a long sub-expression of a local with two SSA
\* versions: the definition and the branch now name a fifth local that is
\* neither in SSA nor tracked, and the local keeps its type.
C24_Witness ==
    /\ jtrue # <<>>
    /\ jtrue.pc = "done"
    /\ Len(jtrue.lvaTable) = 5
    /\ ~jtrue.lvaTable[5].lvInSsa
    /\ ~jtrue.lvaTable[5].lvTracked
    /\ jtrue.lvaTable[5].lvType = "TYP_LONG"
    /\ jtrue.lvaTable[1].lvType = "TYP_INT"
    /\ jtrue.lvaTable[1].ssaCount = 2
    /\ jtrue.asgLhs.lclNum = 4
    /\ jtrue.relopOp1[1].oper = "GT_CAST"
    /\ jtrue.relopOp1[Len(jtrue.relopOp1)].lclNum = 4

(***************************************************************************)
(* More properties of the backward walk, checked under SpecRec.            *)
(***************************************************************************)
\* The walk has returned from a chain short enough to be followed to its end.
WalkReachedChainEnd ==
    /\ rec.pc = "returned"
    /\ propShape.copies <= optEarlyPropRecurBound

\* The chain ends at an assignment whose right-hand side is a call of a
\* helper out of helpers.
ChainEndsAtHelper(helpers) ==
    /\ propShape.last.hasTree
    /\ propShape.last.parentOper = "GT_ASG"
    /\ propShape.last.rhs.oper = "GT_CALL"
    /\ propShape.last.rhs.callType = "CT_HELPER"
    /\ propShape.last.rhs.hnd \in helpers

\* The chain ends at an assignment whose right-hand side is a call that is no
\* allocation helper, or is no call at all.
ChainEndsAtNoAllocation ==
    /\ propShape.last.hasTree
    /\ propShape.last.parentOper = "GT_ASG"
    /\ ~ChainEndsAtHelper(NewArrHelpers \cup NewObjHelpers)

\* C25: the walk returns, if it is a constant, argument 0 of an object or
\* array allocation helper for a type-handle query and argument 1 of an array
\* allocation helper for an array-length query; an array-length query that
\* ends at an object allocation helper, and either query that ends at a call
\* that is no allocation helper or at an expression that is no call, yields
\* no value.
C25_ArgumentPerKindOfQuery ==
    WalkReachedChainEnd
        => /\ (/\ rec.valueKind = "OPK_OBJ_GETTYPE"
               /\ ChainEndsAtHelper(NewArrHelpers \cup NewObjHelpers))
                => rec.value = IF propShape.last.rhs.args[1].oper = "GT_CNS_INT"
                               THEN propShape.last.rhs.args[1] ELSE NullTree
           /\ (rec.valueKind = "OPK_ARRAYLEN" /\ ChainEndsAtHelper(NewArrHelpers))
                => rec.value = IF propShape.last.rhs.args[2].oper = "GT_CNS_INT"
                               THEN propShape.last.rhs.args[2] ELSE NullTree
           /\ (rec.valueKind = "OPK_ARRAYLEN" /\ ChainEndsAtHelper(NewObjHelpers))
                => rec.value = NullTree
           /\ ChainEndsAtNoAllocation => rec.value = NullTree

\* A type-handle query that went through copies to an array allocation has
\* returned the allocation's argument 0, which is not its length argument.
C25_Witness ==
    /\ WalkReachedChainEnd
    /\ propShape.copies >= 1
    /\ rec.valueKind = "OPK_OBJ_GETTYPE"
    /\ ChainEndsAtHelper(NewArrHelpers)
    /\ rec.value = propShape.last.rhs.args[1]
    /\ rec.value # propShape.last.rhs.args[2]
    /\ rec.value # NullTree

(***************************************************************************)
(* Early propagation: the pass, optEarlyProp, over the blocks of a method. *)
(***************************************************************************)
\* An optDoEarlyPropForFunc that lets the pass go on for any flag of the method.
optDoEarlyPropForFuncAnyFlag(optMethodFlags) == optMethodFlags # {}

optDoEarlyPropForFunc(optMethodFlags) ==
    LET propArrayLen  == /\ "OMF_HAS_NEWARRAY" \in optMethodFlags
                         /\ "OMF_HAS_ARRAYREF" \in optMethodFlags
        propGetType   == /\ "OMF_HAS_NEWOBJ" \in optMethodFlags
                         /\ "OMF_HAS_VTABLEREF" \in optMethodFlags
        propNullCheck == "OMF_HAS_NULLCHECK" \in optMethodFlags
    IN  propArrayLen \/ propGetType \/ propNullCheck

optDoEarlyPropForBlock(bbFlags) ==
    LET bbHasArrayRef  == "BBF_HAS_IDX_LEN" \in bbFlags
        bbHasVtableRef == "BBF_HAS_VTABREF" \in bbFlags
        bbHasNullCheck == "BBF_HAS_NULLCHECK" \in bbFlags
    IN  bbHasArrayRef \/ bbHasVtableRef \/ bbHasNullCheck

\* A call made by the pass: of optDoEarlyPropForJTrue on block bbNum (tree 0),
\* of optEarlyPropRewriteTree or optFoldNullCheck on node tree of block bbNum,
\* or the point where optFoldNullCheck has passed its test of the block's
\* BBF_HAS_NULLCHECK at line 543 and starts to look for the pattern.
PassCall(callee, bbNum, tree) == <<callee, bbNum, tree>>

\* What optEarlyPropRewriteTree does for the pass when handed a node of
\* operator oper in a block with bbFlags: the calls it makes, added to calls.
RewriteTreeCalls(calls, bbNum, tree, oper, bbFlags) ==
    LET own == Append(calls, PassCall("optEarlyPropRewriteTree", bbNum, tree))
    IN  IF oper # "GT_IND" THEN own
        ELSE LET called == Append(own, PassCall("optFoldNullCheck", bbNum, tree))
             IN  IF "BBF_HAS_NULLCHECK" \notin bbFlags THEN called
                 ELSE Append(called, PassCall("optFoldNullCheck.pattern", bbNum, tree))

\* The values optEarlyPropRewriteTree can return for a node of operator oper;
\* which one it returns for an array-length read depends on the definitions
\* of the method.
RewriteTreeResults(oper) ==
    IF oper = "GT_ARR_LENGTH" THEN {"nullptr", "tree"} ELSE {"nullptr"}

OptMethodFlags ==
    {"OMF_HAS_NEWARRAY", "OMF_HAS_ARRAYREF", "OMF_HAS_NEWOBJ", "OMF_HAS_VTABLEREF",
     "OMF_HAS_NULLCHECK"}

\* The blocks of the methods examined: with or without a conditional branch
\* at the end, flagged in five ways, each holding one statement whose nodes in
\* execution order are an array-length read and an indirection.
PassBlocks ==
    {[bbJumpKind |-> k, bbFlags |-> f, trees |-> <<"GT_ARR_LENGTH", "GT_IND">>] :
        k \in {"BBJ_COND", "BBJ_NONE"},
        f \in {{}, {"BBF_HAS_IDX_LEN"}, {"BBF_HAS_VTABREF"}, {"BBF_HAS_NULLCHECK"},
               {"BBF_HAS_IDX_LEN", "BBF_HAS_NULLCHECK"}}}

PassInit ==
    \E optMethodFlags \in SUBSET OptMethodFlags, n \in 1 .. MaxPassBlocks :
        \E blocks \in [1 .. n -> PassBlocks] :
            pass = [pc |-> "hoist", optMethodFlags |-> optMethodFlags, blocks |-> blocks,
                    block |-> 1, tree |-> 1, isRewritten |-> FALSE, calls |-> <<>>,
                    stmtInfoSet |-> {}]

passOthers ==
    <<lvaInSsa, ssaDefs, site, propPc, propShape, rec, fold, jtrue, renameVars, walkVars,
      lastOp, memVars>>

\* One round of the first loop (lines 174-181).
PassHoist ==
    /\ pass # <<>>
    /\ pass.pc = "hoist"
    /\ LET b == pass.block
       IN  pass' = [pass EXCEPT
                      !.calls = IF pass.blocks[b].bbJumpKind = "BBJ_COND"
                                THEN Append(@, PassCall("optDoEarlyPropForJTrue", b, 0))
                                ELSE @,
                      !.block = IF b < Len(pass.blocks) THEN b + 1 ELSE 1,
                      !.pc = IF b < Len(pass.blocks) THEN "hoist" ELSE "gate"]
    /\ UNCHANGED passOthers

\* The test of the method between the loops (lines 183-186).
PassGate ==
    /\ pass # <<>>
    /\ pass.pc = "gate"
    /\ pass' = [pass EXCEPT
                  !.pc = IF optDoEarlyPropForFunc(pass.optMethodFlags) THEN "rewrite"
                         ELSE "done"]
    /\ UNCHANGED passOthers

\* A round of the second loop that ends at the continue of line 192.
PassSkipBlock ==
    /\ pass # <<>>
    /\ pass.pc = "rewrite"
    /\ ~optDoEarlyPropForBlock(pass.blocks[pass.block].bbFlags)
    /\ pass' = [pass EXCEPT
                  !.block = IF pass.block < Len(pass.blocks) THEN @ + 1 ELSE @,
                  !.pc = IF pass.block < Len(pass.blocks) THEN "rewrite" ELSE "done"]
    /\ UNCHANGED passOthers

\* One round of the loop over the nodes of the statement (lines 209-218) and,
\* after the last node, the end of the statement (lines 221-225) and of the
\* round of the loop over the blocks.
PassRewriteTree ==
    /\ pass # <<>>
    /\ pass.pc = "rewrite"
    /\ optDoEarlyPropForBlock(pass.blocks[pass.block].bbFlags)
    /\ LET b     == pass.block
           t     == pass.tree
           block == pass.blocks[b]
           last  == t = Len(block.trees)
       IN  \E rewrittenTree \in RewriteTreeResults(block.trees[t]) :
              LET isRewritten == pass.isRewritten \/ rewrittenTree # "nullptr"
              IN  pass' = [pass EXCEPT
                     !.calls = RewriteTreeCalls(@, b, t, block.trees[t], block.bbFlags),
                     !.isRewritten = IF last THEN FALSE ELSE isRewritten,
                     !.stmtInfoSet = IF last /\ isRewritten THEN @ \cup {b} ELSE @,
                     !.tree = IF last THEN 1 ELSE t + 1,
                     !.block = IF last /\ b < Len(pass.blocks) THEN b + 1 ELSE b,
                     !.pc = IF last /\ b = Len(pass.blocks) THEN "done" ELSE "rewrite"]
    /\ UNCHANGED passOthers

InitPass ==
    /\ RenameIdle
    /\ WalkInit
    /\ lastOp = NoOp
    /\ MemIdle
    /\ lvaInSsa = {}
    /\ ssaDefs = <<>>
    /\ site = <<>>
    /\ propPc = "idle"
    /\ propShape = <<>>
    /\ rec = <<>>
    /\ fold = <<>>
    /\ jtrue = <<>>
    /\ PassInit

NextPass == PassHoist \/ PassGate \/ PassSkipBlock \/ PassRewriteTree

SpecPass == InitPass /\ [][NextPass]_vars

(***************************************************************************)
(* Properties of the pass, checked under SpecPass.                         *)
(***************************************************************************)
\* The method has an array allocation and an array-length read, or an object
\* allocation and a vtable read, or a null check.
MethodHasTargetIdiom ==
    \/ {"OMF_HAS_NEWARRAY", "OMF_HAS_ARRAYREF"} \subseteq pass.optMethodFlags
    \/ {"OMF_HAS_NEWOBJ", "OMF_HAS_VTABLEREF"} \subseteq pass.optMethodFlags
    \/ "OMF_HAS_NULLCHECK" \in pass.optMethodFlags

\* Block bbNum is flagged as holding a length read, a vtable read or a null check.
BlockIsFlagged(bbNum) ==
    pass.blocks[bbNum].bbFlags
        \cap {"BBF_HAS_IDX_LEN", "BBF_HAS_VTABREF", "BBF_HAS_NULLCHECK"} # {}

PassCallIndices == 1 .. Len(pass.calls)

IsHoisterCall(i) == pass.calls[i][1] = "optDoEarlyPropForJTrue"

\* C26: once the first loop is over the hoister has been called on exactly
\* the blocks that end in a conditional branch, whatever the flags of the
\* method; every call of the hoister comes before every call that rewrites a
\* site or folds a null check; sites are rewritten and null checks folded only
\* in a method with a target idiom and there only in flagged blocks, and when
\* the pass is over every node of every such block has been handed to the
\* rewriter; the null-check fold gets to its pattern only in a block that
\* carries the null-check flag.
C26_PassGatingAndOrder ==
    /\ pass.pc # "hoist"
         => \A b \in 1 .. Len(pass.blocks) :
               (pass.blocks[b].bbJumpKind = "BBJ_COND")
                  <=> (\E i \in PassCallIndices :
                          pass.calls[i] = PassCall("optDoEarlyPropForJTrue", b, 0))
    /\ \A i \in PassCallIndices : \A k \in PassCallIndices :
          (IsHoisterCall(i) /\ ~IsHoisterCall(k)) => i < k
    /\ \A i \in PassCallIndices :
          ~IsHoisterCall(i)
             => /\ pass.pc \in {"rewrite", "done"}
                /\ MethodHasTargetIdiom
                /\ BlockIsFlagged(pass.calls[i][2])
    /\ pass.pc = "done"
         => \A b \in 1 .. Len(pass.blocks) : \A t \in 1 .. Len(pass.blocks[b].trees) :
               (MethodHasTargetIdiom /\ BlockIsFlagged(b))
                  <=> (\E i \in PassCallIndices :
                          pass.calls[i] = PassCall("optEarlyPropRewriteTree", b, t))
    /\ \A i \in PassCallIndices :
          pass.calls[i][1] = "optFoldNullCheck.pattern"
             => "BBF_HAS_NULLCHECK" \in pass.blocks[pass.calls[i][2]].bbFlags

\* The pass is over on a method of two blocks: the first, unflagged, ends in a
\* conditional branch and went through the hoister only; in the second, the
\* rewriter was called and the fold got to its pattern.
C26_Witness ==
    /\ pass # <<>>
    /\ pass.pc = "done"
    /\ Len(pass.blocks) = 2
    /\ pass.blocks[1].bbFlags = {}
    /\ pass.calls # <<>>
    /\ pass.calls[1] = PassCall("optDoEarlyPropForJTrue", 1, 0)
    /\ \E i \in PassCallIndices : pass.calls[i] = PassCall("optEarlyPropRewriteTree", 2, 1)
    /\ \E i \in PassCallIndices : pass.calls[i] = PassCall("optFoldNullCheck.pattern", 2, 2)
    /\ \A i \in PassCallIndices : pass.calls[i][2] = 1 => IsHoisterCall(i)

====
